---------------------------- MODULE Spec2Model ----------------------------
(***************************************************************************)
(* scrapxd: pagination-aware aggregation of a user's listings and lazy     *)
(* resolution of film references.                                          *)
(*                                                                         *)
(* Two implementations of the aggregation live in the repository and both  *)
(* are modelled: the User methods of models/user.py (impl = "model"),      *)
(* which fetch through the memoising User._get_soup, and the module-level  *)
(* functions of parser/user.py (impl = "parser"), which are handed the     *)
(* first page by their caller and fetch the later pages directly.          *)
(*                                                                         *)
(* A parsed page (a "soup") is modelled by what the parsers read from it:  *)
(* the count it declares, the number of items on it, whether the items are *)
(* numbered, whether a review on it is collapsed.  Item j of page k is the *)
(* pair <<k, j>>.                                                          *)
(***************************************************************************)
EXTENDS Integers, Sequences, FiniteSets, TLC

VARIABLES
    impl,        \* "model" (models/user.py) or "parser" (parser/user.py)
    kind,        \* the aggregate of this session: a property of User
    pc,          \* "idle", "page1", "loop", "returned", "raised"
    soup,        \* the local variable soup: the page parsed last
    declared,    \* log_count, entry_count, review_count, film_count
    page_count,  \* ceil(declared / page size), 0 until computed
    page,        \* the loop variable: the page requested next
    entries,     \* user_logs, diary, reviews, watchlist_slugs
    result,      \* what the call returned or raised
    requested,   \* history: page numbers this run asked for, in order
    fetched,     \* history: listing pages this run fetched from the site, in order
    served,      \* history: served[k] = the items parsed from page k in this run
    failures,    \* fetches that failed so far in the session
    failedPage,  \* history: the listing page whose fetch failed in this run, or 0
    first,       \* history: the first page of the listing being aggregated
    cache,       \* lru_cache of User._get_soup: key -> soup
    props,       \* cached_property store of the User: kind -> result
    lsoup,       \* _parse_user_lists: the lists page whose sections are parsed
    list_count,  \* _parse_user_lists: the number of lists page 1 declares
    lpage_count, \* _parse_user_lists: ceil(list_count / 12), 0 until computed
    lpage,       \* _parse_user_lists: the lists page requested next
    sec,         \* _parse_list_page: the section (list) being parsed, from 1
    user_lists,  \* _parse_user_lists: the lists collected so far
    lrequested,  \* history: lists pages this run asked for, in order
    lserved,     \* history: the number of list summaries on each lists page parsed
    inner,       \* history: "none", or the state of the film list parsed last:
                 \* "running", "done", "raised"
    entry_film,  \* entry_film[e]: the film attribute of entry e, a slug or a Film
    attempts,    \* history: attempts[e] = the outcomes of the fetches of the
                 \* film's page that entry e caused, in order
    film_fetches,  \* history: requests for the page of a slug sent to the Fetcher
    film_failures, \* film fetches that failed so far in the session
    ret,         \* what the last call on an entry returned or raised
    record,      \* the object that holds the entries: an EntryList, or a UserList
                 \* whose films are a list or a dict
    call,        \* history: the last call, its name and its argument
    number_of_entries, \* the record's number_of_entries / number_of_films
    fpc,         \* Fetcher._fetch_page: "idle", "sleep", "get", "retry", "done"
    delay,       \* _fetch_page: the delay argument, in hundredths of a second
    attempt_number, \* the retry loop: the attempt being made, from 1
    outcome,     \* the status of the response to the last session.get
    fresult,     \* what _fetch_page returned or raised to its caller
    events,      \* history: the sleeps, requests and waits of this Fetcher
    fcalls,      \* history: the _fetch_page calls begun on this Fetcher
    rows,        \* a page parser: the items (li, tr, article) of the page
    row,         \* the item the parser's loop is at, from 1
    parsed,      \* film_list, diary_page, review_page: the entries built so far
    rpc,         \* the page parser: "idle", "rows", "returned", "raised"
    perr,        \* the exception the page parser raised, if any
    has_lock,    \* whether cached_property of the running Python holds a lock
                 \* while it computes (3.8 to 3.11) or none (3.12 and later)
    tpc,         \* tpc[t]: where thread t is in its read of a Film attribute
    tattr,       \* tattr[t]: the attribute thread t reads
    tlocal,      \* tlocal[t]: the soup thread t holds, by the version served
    tseen,       \* tseen[t]: the page version behind the value thread t got
    _soup,       \* the shared Film's _soup: 0 for None, or the version held
    cached_attrs,  \* the shared Film's __dict__: attribute -> value, 0 if absent
    page_fetches,  \* history: fetches of the shared Film's page
    _nano_soup,  \* the Film's _nano_soup: 0 for None, or the version held
    nano_fetches,  \* history: fetches of the Film's nanogenres page
    fetch_errors,  \* history: fetches of a page of the Film that failed
    access,      \* history: the last operation on the Film and what it did
    repr,        \* what the last __repr__ returned
    lru,         \* lru_cache of User._get_soup as it is kept: the keys held,
                 \* the least recently used first
    uprops,      \* the properties cached on the User (cached_property)
    pages_of,    \* the pages the site has for each property of the User
    ok_keys,     \* history: the keys fetched successfully so far
    refetched,   \* history: the keys requested from the Fetcher after they
                 \* had been fetched successfully
    failed_at,   \* history: failed_at[prop] = the page at which the last run
                 \* of the property's aggregation failed, 0 if it did not
    last_access  \* history: the last property access and what it requested

runVars == <<soup, declared, page_count, page, entries, requested, served,
             first>>

listsVars == <<lsoup, list_count, lpage_count, lpage, sec, user_lists,
               lrequested, lserved, inner>>

fetchVars == <<fpc, delay, attempt_number, outcome, fresult, events, fcalls>>

rateVars == <<rows, row, parsed, rpc, perr>>

\* One Film read without threads: its second page and the histories.
filmVars == <<_nano_soup, nano_fetches, fetch_errors, access, repr>>

threadVars == <<has_lock, tpc, tattr, tlocal, tseen, _soup, cached_attrs,
                page_fetches, filmVars>>

\* The User's page cache with its eviction, and the histories about it.
cacheVars == <<lru, uprops, pages_of, ok_keys, refetched, failed_at,
               last_access>>

aggVars == <<impl, kind, pc, result, fetched, failures, failedPage, cache,
             props, runVars, listsVars, cacheVars>>

resVars == <<entry_film, attempts, film_fetches, film_failures, ret, record,
             call, number_of_entries>>

\* What an aggregation leaves alone, and what a call on an entry leaves alone.
offAgg == <<resVars, fetchVars, rateVars, threadVars, cacheVars>>

offRes == <<aggVars, fetchVars, rateVars, threadVars>>

offFetch == <<aggVars, resVars, rateVars, threadVars>>

offRate == <<pc, result, fetched, failures, failedPage, cache, props, runVars,
             listsVars, cacheVars, resVars, fetchVars, threadVars>>

offThreads == <<aggVars, resVars, fetchVars, rateVars, filmVars>>

offFilm == <<aggVars, resVars, fetchVars, rateVars, has_lock, tpc, tattr,
             tlocal, tseen>>

offCache == <<impl, kind, pc, result, fetched, failedPage, cache, props,
              runVars, listsVars, resVars, fetchVars, rateVars, threadVars>>

vars == <<aggVars, resVars, fetchVars, rateVars, threadVars>>

---------------------------------------------------------------------------
(* Program constants: the page sizes of the listings. *)

LogsPageSize == 72

DiaryPageSize == 50

ReviewsPageSize == 12

WatchlistPageSize == 28

FilmListPageSize == 100

UserListsPageSize == 12

\* parser.parse_user_lists overwrites the parsed list count with this literal.
HardcodedListCount == 13

(* Bounds of the model. *)

\* A declared total spans at most MaxFullPages full pages plus a remainder.
MaxFullPages == 3

\* A page that drifted holds Shortfall items less than the declared total implies.
Shortfall == 5

\* Fetches that may fail in one session.
MaxFailures == 1

\* The entries whose film references are resolved in one session.
MaxEntries == 2

\* The contents the site may serve for the page of one film.
MaxVersions == 2

\* Film fetches that may fail in one session.
MaxFilmFailures == 1

\* A film list, and the listing of a user's lists, spans at most
\* MaxListFullPages full pages plus a remainder.
MaxListFullPages == 1

Impls == {"model", "parser"}

PlainKinds == {"logs", "diary", "reviews", "watchlist"}

Kinds == PlainKinds \cup {"lists"}

\* The list summaries a lists page may hold.  Every summary starts a nested
\* film-list aggregation, so the model tries pages with none and with one.
SectionsOnPage == {0, 1}

Username == "methdrinkerr"

Slugs == {"barbie", "oppenheimer"}

\* The objects that hold film references: EntryList.entries, and UserList.films
\* as a list or as a dict from rank to film.
Records == {"EntryList", "UserList", "UserListDict"}

EntryIds == 1..MaxEntries

Versions == 1..MaxVersions

---------------------------------------------------------------------------
(* Pure helpers. *)

Max(a, b) == IF a >= b THEN a ELSE b

Min(a, b) == IF a <= b THEN a ELSE b

RECURSIVE Concat(_)
\* The concatenation of a sequence of sequences.
Concat(ss) == IF ss = <<>> THEN <<>> ELSE Head(ss) \o Concat(Tail(ss))

PageSize(k) ==
    CASE k = "logs" -> LogsPageSize
      [] k = "diary" -> DiaryPageSize
      [] k = "reviews" -> ReviewsPageSize
      [] k = "watchlist" -> WatchlistPageSize
      [] k = "filmlist" -> FilmListPageSize
      [] k = "lists" -> UserListsPageSize

\* math.ceil(total / size) for a positive size.
PageCountFloor(total, size) == total \div size
PageCount(total, size) == (total + size - 1) \div size

\* if log_count > 72: the listing has more pages than the first.
NeedsMorePages(total, size) == total > size

\* range(2, page_count + 1): the first page of the loop, its step, its end.
FirstLoopPage == 2

NextPageSkip(p) == p + 2
NextPage(p) == p + 1

InRangeExclusive(p, last) == p < last
InRange(p, last) == p <= last

\* user_logs.extend(slugs)
ExtendFront(acc, items) == items \o acc
Extend(acc, items) == acc \o items

---------------------------------------------------------------------------
(* The source: the pages the site may serve. *)

\* The declared totals tried for a listing: around every page boundary, and the
\* totals of the worked examples (60 on a watchlist, 130 on the logs).
Totals(k) ==
    LET ps == PageSize(k)
    IN  IF k \in {"filmlist", "lists"}
        THEN {q * ps + r : q \in 0..MaxListFullPages, r \in {0, 1}}
        ELSE {q * ps + r : q \in 0..MaxFullPages, r \in {0, 1, ps - 1}}
             \cup (IF k = "watchlist" THEN {60} ELSE {})
             \cup (IF k = "logs" THEN {130} ELSE {})

\* The items page p holds when the listing holds exactly total items.
Expected(total, size, p) == Max(0, Min(size, total - (p - 1) * size))

\* The item counts a served page may hold: what the declared total implies, a
\* page that drifted, an empty page.
Lens(total, size, p) ==
    LET e == Expected(total, size, p)
    IN  {e, Max(0, e - Shortfall), 0}

\* A parsed page.  marks holds the markers the parsers look for: "numbered" (a
\* numbered-list-item), "collapsed" (a collapsed review text), "list-set" (the
\* section that holds a user's lists).
Soup(k, p, total, n, marks) ==
    [kind |-> k, page |-> p, total |-> total, n |-> n, marks |-> marks]

NoSoup == Soup("none", 0, 0, 0, {})

\* The markers a page of listing k with n items may carry.
Marks(k, n) ==
    CASE k = "reviews" /\ n > 0 -> {{}, {"collapsed"}}
      [] k = "filmlist" /\ n > 0 -> {{}, {"numbered"}}
      [] OTHER -> {{}}

\* The pages the site may serve as page p of listing k, whose declared total is
\* one of totals (drawn on page 1, known on the later pages).
SourcePages(k, p, totals) ==
    IF k = "lists"
    THEN {Soup(k, p, 0, 0, {})}
         \cup {Soup(k, p, t, n, {"list-set"}) : t \in totals, n \in SectionsOnPage}
    ELSE UNION {UNION {{Soup(k, p, t, n, m) : m \in Marks(k, n)} :
                       n \in Lens(t, PageSize(k), p)} :
                t \in totals}

---------------------------------------------------------------------------
(* The page parsers. *)

\* A parser's return value: a list of items, or None.
List(items) == [none |-> FALSE, items |-> items]

None == [none |-> TRUE, items |-> <<>>]

\* The items of a page, in page order.
Items(s) == [j \in 1..s.n |-> <<s.page, j>>]

\* parser._parse_slugs and parser._parse_slugs_with_rating return None for a page
\* without items; the User methods and the diary and review parsers return [].
ReturnsNoneAlways(i, k) == k \in {"logs", "watchlist", "filmlist", "lists"}
ReturnsNone(i, k) == i = "parser" /\ k \in {"logs", "watchlist", "filmlist", "lists"}

_parse_page(i, k, s) ==
    IF s.n = 0 /\ ReturnsNone(i, k) THEN None ELSE List(Items(s))

\* if slugs: watchlist_slugs.extend(slugs) -- only the watchlist guards the merge.
GuardsExtend(k) == k = "watchlist"

\* _parse_count, and the watchlist's js-watchlist-count: the total page 1 declares.
_parse_count(s) == s.total

\* The kinds whose entries hold Film objects; the others hold bare slugs.
HoldsFilms(i, k) == i = "model" /\ k \in {"logs", "reviews", "watchlist", "filmlist"}

\* enumerate(films, start=1): the pairs (index, film).
EnumerateFromZero(films, start) == [i \in 1..Len(films) |-> <<i - 1, films[i]>>]
Enumerate(films, start) == [i \in 1..Len(films) |-> <<start + i - 1, films[i]>>]

\* {i: v for i, v in pairs}: a later pair replaces an earlier one with its key.
DictOf(pairs) ==
    [k \in {pairs[i][1] : i \in DOMAIN pairs} |->
        LET last == CHOOSE i \in DOMAIN pairs :
                        /\ pairs[i][1] = k
                        /\ \A j \in DOMAIN pairs : pairs[j][1] = k => j <= i
        IN  pairs[last][2]]

\* UserList.films: a list, or a dict from rank to film.
AsList(films) == [type |-> "list", val |-> films]

AsDict(films) == [type |-> "dict", val |-> DictOf(Enumerate(films, 1))]

\* is_numbered = soup.find("li", class_="poster-container numbered-list-item")
IsNumbered(s) == "numbered" \in s.marks

\* The UserList a finished film-list aggregation returns.
UserList(i, total, films, s) ==
    [tag |-> "UserList", username |-> Username,
     film |-> IF HoldsFilms(i, "filmlist") THEN "Film" ELSE "str",
     number |-> total,
     films |-> IF IsNumbered(s) THEN AsDict(films) ELSE AsList(films)]

\* The value a finished aggregation returns: logs an EntryList, the watchlist a
\* UserList, the diary, the reviews and the lists a bare list.
BuildResultChecked(i, k, total, es) ==
    IF Len(es) # total
    THEN [tag |-> "CountMismatch", expected |-> total, actual |-> Len(es)]
    ELSE [tag |-> "list", film |-> "str", entries |-> es]
BuildResult(i, k, total, es) ==
    LET film == IF HoldsFilms(i, k) THEN "Film" ELSE "str"
    IN  CASE k = "logs" ->
                [tag |-> "EntryList", username |-> Username, film |-> film,
                 number |-> total, entries |-> es]
          [] k = "watchlist" ->
                [tag |-> "UserList", username |-> Username, film |-> film,
                 number |-> total, films |-> AsList(es)]
          [] k = "lists" ->
                [tag |-> "list", film |-> "UserList", entries |-> es]
          [] OTHER ->
                [tag |-> "list", film |-> film, entries |-> es]

\* return [] (User._parse_user_lists) and return None (parser.parse_user_lists)
\* for a user without lists.
NoLists(i) ==
    IF i = "model" THEN BuildResult(i, "lists", 0, <<>>) ELSE [tag |-> "None"]

Raised(exc) == [tag |-> "raised", exc |-> exc]

NoResult == [tag |-> "none"]

\* A call and its argument; no call yet.
Call(name, arg) == <<name, arg>>

NoCall == Call("none", 0)

\* list_count: parser.parse_user_lists replaces the parsed count by a literal.
ListCount(i, s) == IF i = "parser" THEN HardcodedListCount ELSE _parse_count(s)

---------------------------------------------------------------------------
(* The fetch layer. *)

\* The key of a page in the cache and in the histories: the fetch function and
\* its arguments.
Key(k, p) == <<k, 0, 0, p>>

\* Page p of the film list of section sc of lists page lp.
ListKey(lp, sc, p) == <<"list", lp, sc, p>>

\* User._get_soup answers from its cache; the parser functions always fetch.
IsHit(key) == impl = "model" /\ key \in DOMAIN cache

\* What a request for page p of listing k, cached under key, may obtain.
Obtainable(key, k, p, totals) ==
    IF IsHit(key) THEN {cache[key]} ELSE SourcePages(k, p, totals)

CanFail(key) == ~IsHit(key) /\ failures < MaxFailures

\* lru_cache stores what the fetch returned.
Store(c, key, s) == IF impl = "model" THEN (key :> s) @@ c ELSE c

---------------------------------------------------------------------------
(* The session. *)

\* No property of the User has been read through the bounded cache.
NoProperty == [prop |-> "none", how |-> "none", requested |-> {}, after |-> 0]

CacheIdle ==
    /\ lru = <<>>
    /\ uprops = {}
    /\ pages_of = <<>>
    /\ ok_keys = {}
    /\ refetched = {}
    /\ failed_at = <<>>
    /\ last_access = NoProperty

UserIdle ==
    /\ pc = "idle"
    /\ soup = NoSoup
    /\ declared = 0
    /\ page_count = 0
    /\ page = 0
    /\ entries = <<>>
    /\ result = NoResult
    /\ requested = <<>>
    /\ fetched = <<>>
    /\ served = <<>>
    /\ failures = 0
    /\ failedPage = 0
    /\ first = NoSoup
    /\ cache = <<>>
    /\ props = <<>>
    /\ lsoup = NoSoup
    /\ list_count = 0
    /\ lpage_count = 0
    /\ lpage = 0
    /\ sec = 0
    /\ user_lists = <<>>
    /\ lrequested = <<>>
    /\ lserved = <<>>
    /\ inner = "none"

\* No aggregation has run.
AggIdle ==
    /\ CacheIdle
    /\ UserIdle

\* No entry is held.
ResIdle ==
    /\ entry_film = <<>>
    /\ attempts = <<>>
    /\ film_fetches = [s \in Slugs |-> 0]
    /\ film_failures = 0
    /\ ret = NoResult
    /\ record = "none"
    /\ call = NoCall
    /\ number_of_entries = 0

\* No page is being fetched through the Fetcher.
FetchIdle ==
    /\ fpc = "idle"
    /\ delay = 0
    /\ attempt_number = 0
    /\ outcome = 0
    /\ fresult = NoResult
    /\ events = <<>>
    /\ fcalls = 0

\* No page is being parsed item by item.
RateIdle ==
    /\ rows = <<>>
    /\ row = 0
    /\ parsed = <<>>
    /\ rpc = "idle"
    /\ perr = NoResult

\* No thread reads a shared Film.
NoAccess == [op |-> "none", had |-> FALSE, requests |-> 0, got |-> 0]

NoRepr == [slug |-> "none"]

FilmIdle ==
    /\ _nano_soup = 0
    /\ nano_fetches = 0
    /\ fetch_errors = 0
    /\ access = NoAccess
    /\ repr = NoRepr

ThreadsIdle ==
    /\ FilmIdle
    /\ has_lock = FALSE
    /\ tpc = <<>>
    /\ tattr = <<>>
    /\ tlocal = <<>>
    /\ tseen = <<>>
    /\ _soup = 0
    /\ cached_attrs = <<>>
    /\ page_fetches = 0

Init ==
    /\ impl \in Impls
    /\ kind \in Kinds
    /\ AggIdle
    /\ ResIdle
    /\ FetchIdle
    /\ RateIdle
    /\ ThreadsIdle

\* The caller reads the property (User.logs, ...) or calls the parser function.
\* A cached_property that holds a value returns it; otherwise the aggregation
\* runs from its first line.  The parser functions keep no state between calls,
\* and reading User.lists again is outside the model.
Access ==
    /\ \/ pc = "idle"
       \/ pc \in {"raised", "returned", "cached"} /\ impl = "model"
                                                  /\ kind \in PlainKinds
    /\ IF kind \in DOMAIN props
       THEN /\ pc' = "cached"
            /\ result' = props[kind]
       ELSE /\ pc' = "page1"
            /\ result' = NoResult
    /\ soup' = NoSoup
    /\ declared' = 0
    /\ page_count' = 0
    /\ page' = 0
    /\ entries' = <<>>
    /\ requested' = <<>>
    /\ fetched' = <<>>
    /\ served' = <<>>
    /\ failedPage' = 0
    /\ first' = NoSoup
    /\ UNCHANGED <<impl, kind, failures, cache, props, listsVars>>
    /\ UNCHANGED offAgg

\* The aggregation returns: the cached_property keeps the value.
Return(r) ==
    /\ pc' = "returned"
    /\ result' = r
    /\ props' = IF impl = "model" THEN (kind :> r) @@ props ELSE props

RaiseReturnsPartial(exc) == Return(BuildResult(impl, kind, declared, entries))
Raise(exc) ==
    /\ pc' = "raised"
    /\ result' = Raised(exc)
    /\ UNCHANGED props

\* The bookkeeping of a fetch of page p, cached under key, that returned s.  The
\* User methods rebind soup on every page; the parser functions keep the first
\* page in soup and bind the later ones to page_soup.
Got(key, p, s) ==
    /\ requested' = Append(requested, p)
    /\ fetched' = IF IsHit(key) THEN fetched ELSE Append(fetched, key)
    /\ soup' = IF impl = "parser" /\ p > 1 THEN soup ELSE s
    /\ first' = IF p = 1 THEN s ELSE first
    /\ failedPage' = 0

\* A collapsed review makes _parse_review_page fetch the review's full text.
NeedsText(s) == s.kind = "reviews" /\ "collapsed" \in s.marks

TextKey(p) == Key("review_text", p)

\* The first page is fetched and parsed, and the pagination is decided.
FirstPage ==
    /\ pc = "page1"
    /\ kind \in PlainKinds
    /\ \E s \in Obtainable(Key(kind, 1), kind, 1, Totals(kind)), textOk \in BOOLEAN :
        LET items == _parse_page(impl, kind, s)
            c1 == Store(cache, Key(kind, 1), s)
        IN  /\ Got(Key(kind, 1), 1, s)
            /\ declared' = _parse_count(s)
            /\ IF items.none
               THEN \* [slug for slug in None]
                    /\ textOk
                    /\ Raise("TypeError")
                    /\ cache' = c1
                    /\ UNCHANGED <<entries, served, page, page_count, failures>>
               ELSE IF ~textOk
               THEN /\ NeedsText(s)
                    /\ CanFail(TextKey(1))
                    /\ Raise("FetchError")
                    /\ failures' = failures + 1
                    /\ cache' = c1
                    /\ UNCHANGED <<entries, served, page, page_count>>
               ELSE /\ cache' = IF NeedsText(s)
                                THEN Store(c1, TextKey(1), NoSoup) ELSE c1
                    /\ entries' = items.items
                    /\ served' = <<items.items>>
                    /\ UNCHANGED failures
                    /\ page_count' = IF NeedsMorePages(declared', PageSize(kind))
                                     THEN PageCount(declared', PageSize(kind))
                                     ELSE 0
                    /\ IF /\ NeedsMorePages(declared', PageSize(kind))
                          /\ InRange(FirstLoopPage, page_count')
                       THEN /\ page' = FirstLoopPage
                            /\ pc' = "loop"
                            /\ UNCHANGED <<result, props>>
                       ELSE /\ Return(BuildResult(impl, kind, declared', entries'))
                            /\ UNCHANGED page
    /\ UNCHANGED <<impl, kind, listsVars>>
    /\ UNCHANGED offAgg

\* One turn of the pagination loop: page `page` is fetched, parsed and merged.
NextPageStep ==
    /\ pc = "loop"
    /\ \E s \in Obtainable(Key(kind, page), kind, page, {declared}),
          textOk \in BOOLEAN :
        LET items == _parse_page(impl, kind, s)
            c1 == Store(cache, Key(kind, page), s)
            skip == GuardsExtend(kind) /\ (items.none \/ items.items = <<>>)
        IN  /\ Got(Key(kind, page), page, s)
            /\ IF items.none /\ ~skip
               THEN \* user_logs.extend(None)
                    /\ textOk
                    /\ Raise("TypeError")
                    /\ cache' = c1
                    /\ UNCHANGED <<entries, served, page, failures>>
               ELSE IF ~textOk
               THEN /\ NeedsText(s)
                    /\ CanFail(TextKey(page))
                    /\ Raise("FetchError")
                    /\ failures' = failures + 1
                    /\ cache' = c1
                    /\ UNCHANGED <<entries, served, page>>
               ELSE /\ cache' = IF NeedsText(s)
                                THEN Store(c1, TextKey(page), NoSoup) ELSE c1
                    /\ entries' = IF skip THEN entries
                                  ELSE Extend(entries, items.items)
                    /\ served' = Append(served, items.items)
                    /\ UNCHANGED failures
                    /\ page' = NextPage(page)
                    /\ IF InRange(page', page_count)
                       THEN /\ pc' = "loop"
                            /\ UNCHANGED <<result, props>>
                       ELSE Return(BuildResult(impl, kind, declared, entries'))
    /\ UNCHANGED <<impl, kind, declared, page_count, listsVars>>
    /\ UNCHANGED offAgg

\* The fetch of the page requested next fails: Fetcher._fetch_page re-raises,
\* nothing catches it, and the aggregation ends with that exception.
FetchFails ==
    /\ pc \in {"page1", "loop"}
    /\ kind \in PlainKinds
    /\ LET p == IF pc = "page1" THEN 1 ELSE page
       IN  /\ CanFail(Key(kind, p))
           /\ requested' = Append(requested, p)
           /\ fetched' = Append(fetched, Key(kind, p))
           /\ failedPage' = p
    /\ failures' = failures + 1
    /\ Raise("FetchError")
    /\ UNCHANGED <<impl, kind, soup, declared, page_count, page, entries,
                   served, first, cache, listsVars>>
    /\ UNCHANGED offAgg

---------------------------------------------------------------------------
(* The user's lists: every list summary on a lists page starts the          *)
(* aggregation of that film list, nested in the aggregation of the lists.   *)

\* The lists of lists page p are merged: the pagination of the lists goes on.
\* On page 1 it is decided first.
AfterListsPage(p, count, lists) ==
    LET paged == p > 1 \/ NeedsMorePages(count, PageSize("lists"))
        next == IF p = 1 THEN FirstLoopPage ELSE NextPage(p)
    IN  /\ lpage_count' = IF p > 1 THEN lpage_count
                          ELSE IF paged THEN PageCount(count, PageSize("lists"))
                          ELSE 0
        /\ IF paged /\ InRange(next, lpage_count')
           THEN /\ lpage' = next
                /\ pc' = "lists_loop"
                /\ UNCHANGED <<result, props>>
           ELSE /\ Return(BuildResult(impl, "lists", count, lists))
                /\ UNCHANGED lpage

\* The first lists page is fetched; _parse_list_page starts on its sections.
ListsFirstPage ==
    /\ pc = "page1"
    /\ kind = "lists"
    /\ \E s \in Obtainable(Key("lists", 1), "lists", 1, Totals("lists")) :
        /\ lrequested' = <<1>>
        /\ fetched' = Append(fetched, Key("lists", 1))
        /\ cache' = Store(cache, Key("lists", 1), s)
        /\ lsoup' = s
        /\ failedPage' = 0
        /\ IF "list-set" \notin s.marks
           THEN \* if not has_lists: return
                /\ Return(NoLists(impl))
                /\ UNCHANGED <<list_count, lpage_count, lpage, sec, lserved>>
           ELSE /\ list_count' = ListCount(impl, s)
                /\ lserved' = IF s.n = 0 /\ ReturnsNone(impl, "lists")
                              THEN lserved ELSE <<s.n>>
                /\ IF s.n > 0
                   THEN /\ sec' = 1
                        /\ pc' = "list_first"
                        /\ UNCHANGED <<result, props, lpage_count, lpage>>
                   ELSE IF ReturnsNone(impl, "lists")
                   THEN \* [film_list for film_list in None]
                        /\ Raise("TypeError")
                        /\ UNCHANGED <<lpage_count, lpage, sec>>
                   ELSE /\ AfterListsPage(1, list_count', <<>>)
                        /\ UNCHANGED sec
    /\ UNCHANGED <<impl, kind, failures, runVars, user_lists, inner>>
    /\ UNCHANGED offAgg

\* A later lists page is fetched.  User._parse_user_lists then calls
\* self._get_soup(page), whose fetch_function is the page number: reading its
\* __name__ raises AttributeError.  parser.parse_user_lists parses the page.
ListsNextPage ==
    /\ pc = "lists_loop"
    /\ \E s \in Obtainable(Key("lists", lpage), "lists", lpage, {lsoup.total}) :
        /\ lrequested' = Append(lrequested, lpage)
        /\ fetched' = Append(fetched, Key("lists", lpage))
        /\ cache' = Store(cache, Key("lists", lpage), s)
        /\ failedPage' = 0
        /\ IF impl = "model"
           THEN /\ Raise("AttributeError")
                /\ UNCHANGED <<lsoup, sec, lserved>>
           ELSE IF s.n > 0
           THEN /\ lsoup' = s
                /\ sec' = 1
                /\ pc' = "list_first"
                /\ lserved' = Append(lserved, s.n)
                /\ UNCHANGED <<result, props>>
           ELSE \* user_lists.extend(None)
                /\ Raise("TypeError")
                /\ UNCHANGED <<lsoup, sec, lserved>>
    /\ UNCHANGED <<impl, kind, failures, runVars, list_count, lpage_count,
                   lpage, user_lists, inner>>
    /\ UNCHANGED offAgg

\* The film list is complete: the UserList joins the lists of its page, and
\* _parse_list_page goes on to the next section or returns.
FinishList(total, films, s) ==
    /\ user_lists' = Append(user_lists, UserList(impl, total, films, s))
    /\ inner' = "done"
    /\ IF sec < lsoup.n
       THEN /\ sec' = sec + 1
            /\ pc' = "list_first"
            /\ UNCHANGED <<result, props, lpage_count, lpage>>
       ELSE /\ AfterListsPage(lsoup.page, list_count, user_lists')
            /\ UNCHANGED sec

\* The first page of the film list of the current section is fetched, by
\* _parse_list_page, and _parse_film_list parses it and decides its pagination.
ListFirst ==
    /\ pc = "list_first"
    /\ LET k1 == ListKey(lsoup.page, sec, 1)
       IN  \E s \in Obtainable(k1, "filmlist", 1, Totals("filmlist")) :
            LET items == _parse_page(impl, "filmlist", s)
            IN  /\ requested' = <<1>>
                /\ fetched' = Append(fetched, k1)
                /\ cache' = Store(cache, k1, s)
                /\ soup' = s
                /\ first' = s
                /\ failedPage' = 0
                /\ declared' = _parse_count(s)
                /\ IF items.none
                   THEN \* [slug for slug in None]
                        /\ Raise("TypeError")
                        /\ inner' = "raised"
                        /\ entries' = <<>>
                        /\ served' = <<>>
                        /\ UNCHANGED <<page, page_count, sec, user_lists,
                                       lpage_count, lpage>>
                   ELSE /\ entries' = items.items
                        /\ served' = <<items.items>>
                        /\ page_count' =
                              IF NeedsMorePages(declared', PageSize("filmlist"))
                              THEN PageCount(declared', PageSize("filmlist"))
                              ELSE 0
                        /\ IF /\ NeedsMorePages(declared', PageSize("filmlist"))
                              /\ InRange(FirstLoopPage, page_count')
                           THEN /\ page' = FirstLoopPage
                                /\ pc' = "list_loop"
                                /\ inner' = "running"
                                /\ UNCHANGED <<result, props, sec, user_lists,
                                               lpage_count, lpage>>
                           ELSE /\ FinishList(declared', entries', soup')
                                /\ page' = 0
    /\ UNCHANGED <<impl, kind, failures, lsoup, list_count, lrequested, lserved>>
    /\ UNCHANGED offAgg

\* One turn of the film list's pagination loop.
ListNext ==
    /\ pc = "list_loop"
    /\ LET kp == ListKey(lsoup.page, sec, page)
       IN  \E s \in Obtainable(kp, "filmlist", page, {declared}) :
            LET items == _parse_page(impl, "filmlist", s)
            IN  /\ Got(kp, page, s)
                /\ cache' = Store(cache, kp, s)
                /\ IF items.none
                   THEN \* films.extend(None)
                        /\ Raise("TypeError")
                        /\ inner' = "raised"
                        /\ UNCHANGED <<entries, served, page, sec, user_lists,
                                       lpage_count, lpage>>
                   ELSE /\ entries' = Extend(entries, items.items)
                        /\ served' = Append(served, items.items)
                        /\ page' = NextPage(page)
                        /\ IF InRange(page', page_count)
                           THEN /\ pc' = "list_loop"
                                /\ UNCHANGED <<result, props, sec, user_lists,
                                               lpage_count, lpage, inner>>
                           ELSE FinishList(declared, entries', soup')
    /\ UNCHANGED <<impl, kind, failures, declared, page_count, lsoup,
                   list_count, lrequested, lserved>>
    /\ UNCHANGED offAgg

\* The fetch of a lists page or of a film-list page fails.
ListsFetchFails ==
    /\ kind = "lists"
    /\ pc \in {"page1", "lists_loop", "list_first", "list_loop"}
    /\ failures < MaxFailures
    /\ CASE pc = "page1" ->
                /\ lrequested' = <<1>>
                /\ fetched' = Append(fetched, Key("lists", 1))
                /\ failedPage' = 1
                /\ UNCHANGED <<requested, inner>>
         [] pc = "lists_loop" ->
                /\ lrequested' = Append(lrequested, lpage)
                /\ fetched' = Append(fetched, Key("lists", lpage))
                /\ failedPage' = lpage
                /\ UNCHANGED <<requested, inner>>
         [] pc = "list_first" ->
                /\ requested' = <<1>>
                /\ fetched' = Append(fetched, ListKey(lsoup.page, sec, 1))
                /\ failedPage' = 1
                /\ inner' = "raised"
                /\ UNCHANGED lrequested
         [] pc = "list_loop" ->
                /\ requested' = Append(requested, page)
                /\ fetched' = Append(fetched, ListKey(lsoup.page, sec, page))
                /\ failedPage' = page
                /\ inner' = "raised"
                /\ UNCHANGED lrequested
    /\ failures' = failures + 1
    /\ Raise("FetchError")
    /\ UNCHANGED <<impl, kind, soup, declared, page_count, page, entries,
                   served, first, cache, lsoup, list_count, lpage_count, lpage,
                   sec, user_lists, lserved>>
    /\ UNCHANGED offAgg

Next ==
    \/ Access
    \/ FirstPage
    \/ NextPageStep
    \/ FetchFails
    \/ ListsFirstPage
    \/ ListsNextPage
    \/ ListFirst
    \/ ListNext
    \/ ListsFetchFails

Spec == Init /\ [][Next]_vars

---------------------------------------------------------------------------
(* Lazy resolution of film references.  An entry holds a bare slug (diary   *)
(* entries, and every entry the parser functions build) or a Film built from *)
(* its slug alone (the entries of User.logs).  The content of a film's page  *)
(* is modelled by its version: the site may serve any version on any fetch.  *)

\* A bare slug standing for a film.
BareSlug(slug) == [tag |-> "str", slug |-> slug, soup |-> 0, title |-> 0]

\* Film(slug=slug): _soup is None and no attribute is computed.
LazyFilm(slug) == [tag |-> "Film", slug |-> slug, soup |-> 0, title |-> 0]

\* parse_film(soup): a Film whose attributes are set from the page; it keeps no
\* soup.
parse_film(slug, v) == [tag |-> "Film", slug |-> slug, soup |-> 0, title |-> v]

\* return self.film, return film: the Film object that entry e holds.
FilmAt(e) == [tag |-> "film", e |-> e]

\* return self.films: the list or dict of the UserList itself.
Films == [tag |-> "films"]

\* isinstance(self.film, str)
IsStrAlways(f) == TRUE
IsStr(f) == f.tag = "str"

\* isinstance(self.films[i], Film)
IsFilmNever(f) == FALSE
IsFilm(f) == f.tag = "Film"

\* if self._soup is None
SoupIsNone(f) == f.soup = 0

\* The outcome of one fetch of a film's page: the version served, or the
\* request that failed.
Ok(v) == <<"ok", v>>

Failed(what) == <<"failed", what>>

\* One more request for the page of slug reaches the Fetcher.
fetch_film_cached(slug) == UNCHANGED film_fetches
fetch_film(slug) == film_fetches' = [film_fetches EXCEPT ![slug] = @ + 1]

\* The session starts from a record as an aggregation builds it: every entry
\* holds a bare slug, or every entry holds a lazy Film.  The first entry's
\* film is named barbie; the other name stands for any other film.
InitResolve ==
    /\ impl = "model"
    /\ kind = "logs"
    /\ AggIdle
    /\ \E slugs \in {f \in [EntryIds -> Slugs] : f[1] = "barbie"} :
          \/ entry_film = [e \in EntryIds |-> BareSlug(slugs[e])]
          \/ entry_film = [e \in EntryIds |-> LazyFilm(slugs[e])]
    /\ attempts = [e \in EntryIds |-> <<>>]
    /\ film_fetches = [s \in Slugs |-> 0]
    /\ film_failures = 0
    /\ ret = NoResult
    /\ record \in Records
    /\ call = NoCall
    /\ number_of_entries = MaxEntries
    /\ FetchIdle
    /\ RateIdle
    /\ ThreadsIdle

\* Entry.get_film_details: a bare slug is fetched, parsed and replaced by the
\* Film; a Film is returned as it is.
GetFilmDetails(e) ==
    LET f == entry_film[e]
    IN  /\ record = "EntryList"
        /\ call' = Call("get_film_details", e)
        /\ IF IsStr(f)
           THEN \E v \in Versions :
                    /\ fetch_film(f.slug)
                    /\ attempts' = [attempts EXCEPT ![e] = Append(@, Ok(v))]
                    /\ entry_film' = [entry_film EXCEPT ![e] = parse_film(f.slug, v)]
           ELSE UNCHANGED <<entry_film, attempts, film_fetches>>
        /\ ret' = FilmAt(e)
        /\ UNCHANGED <<film_failures, record, number_of_entries, offRes>>

\* Entry.get_film_details on a bare slug, when fetch_film fails, or when
\* parse_film fails in parse_nanogenres, which fetches a second page: the
\* exception leaves the entry as it was.
GetFilmDetailsFails(e) ==
    LET f == entry_film[e]
    IN  /\ record = "EntryList"
        /\ call' = Call("get_film_details", e)
        /\ IsStr(f)
        /\ film_failures < MaxFilmFailures
        /\ attempts' = [attempts EXCEPT ![e] = Append(@, Failed("film"))]
        /\ fetch_film(f.slug)
        /\ film_failures' = film_failures + 1
        /\ ret' = Raised("FetchError")
        /\ UNCHANGED <<entry_film, record, number_of_entries, offRes>>

\* An attribute of the entry's Film is read (entry.film.title): the
\* cached_property answers when it holds a value; otherwise Film._get_soup
\* fetches the page unless the Film holds it, and the attribute is parsed.
FilmAttribute(e) ==
    LET f == entry_film[e]
    IN  /\ call' = Call("title", e)
        /\ ~IsStr(f)
        /\ IF f.title # 0
           THEN UNCHANGED <<entry_film, attempts, film_fetches>>
           ELSE IF SoupIsNone(f)
           THEN \E v \in Versions :
                    /\ fetch_film(f.slug)
                    /\ attempts' = [attempts EXCEPT ![e] = Append(@, Ok(v))]
                    /\ entry_film' = [entry_film EXCEPT ![e].soup = v,
                                                       ![e].title = v]
           ELSE /\ entry_film' = [entry_film EXCEPT ![e].title = f.soup]
                /\ UNCHANGED <<attempts, film_fetches>>
        /\ ret' = [tag |-> "value", title |-> entry_film'[e].title]
        /\ UNCHANGED <<film_failures, record, number_of_entries, offRes>>

\* The fetch in Film._get_soup fails: _soup stays None.
FilmAttributeFails(e) ==
    LET f == entry_film[e]
    IN  /\ call' = Call("title", e)
        /\ ~IsStr(f)
        /\ f.title = 0
        /\ SoupIsNone(f)
        /\ film_failures < MaxFilmFailures
        /\ fetch_film(f.slug)
        /\ attempts' = [attempts EXCEPT ![e] = Append(@, Failed("film"))]
        /\ film_failures' = film_failures + 1
        /\ ret' = Raised("FetchError")
        /\ UNCHANGED <<entry_film, record, number_of_entries, offRes>>

\* The limit argument of get_films: None, or a number.
NoLimit == [none |-> TRUE, val |-> 0]

Limit(n) == [none |-> FALSE, val |-> n]

Limits == {NoLimit} \cup {Limit(n) : n \in 0..(MaxEntries + 1)}

\* if limit is None: limit = len(self.films)
EffectiveLimit(limit) == IF limit.none THEN MaxEntries ELSE limit.val

\* The key of the e-th film: a list index from 0, a dict rank from 1.
KeyOf(rec, e) == IF rec = "UserListDict" THEN e ELSE e - 1

\* range(min(limit, len(self.films))) on a list, and
\* range(1, min(limit, len(self.films)) + 1) on a dict.
RangeKeys(rec, limit) ==
    LET m == Min(EffectiveLimit(limit), MaxEntries)
    IN  IF rec = "UserListDict" THEN 1..m ELSE 0..(m - 1)

\* The positions get_films visits, in increasing order.
Visited(rec, limit) == {e \in EntryIds : KeyOf(rec, e) \in RangeKeys(rec, limit)}

\* One request for the page of every film held at the positions es.
fetch_films(es) ==
    film_fetches' = [s \in Slugs |-> film_fetches[s]
                        + Cardinality({e \in es : entry_film[e].slug = s})]

\* The loop reached position e before the fetch for position stop failed.
BeforeOrAt(e, stop) == e <= stop
Before(e, stop) == e < stop

\* UserList.get_films: the films at the first min(limit, len) positions that
\* are still slugs are fetched and parsed, in order; a fetch that fails ends
\* the call at its position `stop`.  EntryList.get_films reads self.films,
\* which an EntryList does not have.
GetFilms(limit) ==
    /\ call' = Call("get_films", limit)
    /\ IF record = "EntryList"
       THEN /\ ret' = Raised("AttributeError")
            /\ UNCHANGED <<entry_film, attempts, film_fetches, film_failures>>
       ELSE \E stop \in Visited(record, limit) \cup {MaxEntries + 1} :
               LET done == {e \in Visited(record, limit) :
                               Before(e, stop) /\ ~IsFilm(entry_film[e])}
                   fails == stop \in EntryIds
               IN  \E vs \in [done -> Versions] :
                   /\ fails => ~IsFilm(entry_film[stop])
                                /\ film_failures < MaxFilmFailures
                   /\ entry_film' =
                         [e \in EntryIds |->
                            IF e \in done
                            THEN parse_film(entry_film[e].slug, vs[e])
                            ELSE entry_film[e]]
                   /\ attempts' =
                         [e \in EntryIds |->
                            IF e \in done THEN Append(attempts[e], Ok(vs[e]))
                            ELSE IF e = stop THEN Append(attempts[e], Failed("film"))
                            ELSE attempts[e]]
                   /\ fetch_films(done \cup (IF fails THEN {stop} ELSE {}))
                   /\ film_failures' = film_failures + (IF fails THEN 1 ELSE 0)
                   /\ ret' = IF fails THEN Raised("FetchError") ELSE Films
    /\ UNCHANGED <<record, number_of_entries, offRes>>

\* self.films.index(slug), and the first value equal to slug among
\* self.films.items(): a Film is never equal to a str.  0 when there is none.
IndexOf(slug) ==
    LET hits == {e \in EntryIds : IsStr(entry_film[e]) /\ entry_film[e].slug = slug}
    IN  IF hits = {} THEN 0 ELSE CHOOSE e \in hits : \A x \in hits : e <= x

\* UserList.get_film: the first position that holds the slug is fetched,
\* parsed and replaced; None when no position holds it.
GetFilm(slug) ==
    LET e == IndexOf(slug)
    IN  /\ record # "EntryList"
        /\ call' = Call("get_film", slug)
        /\ IF e = 0
           THEN /\ ret' = [tag |-> "None"]
                /\ UNCHANGED <<entry_film, attempts, film_fetches, film_failures>>
           ELSE \/ \E v \in Versions :
                     /\ fetch_film(slug)
                     /\ attempts' = [attempts EXCEPT ![e] = Append(@, Ok(v))]
                     /\ entry_film' = [entry_film EXCEPT ![e] = parse_film(slug, v)]
                     /\ ret' = FilmAt(e)
                     /\ UNCHANGED film_failures
                \/ /\ film_failures < MaxFilmFailures
                   /\ fetch_film(slug)
                   /\ attempts' = [attempts EXCEPT ![e] = Append(@, Failed("film"))]
                   /\ film_failures' = film_failures + 1
                   /\ ret' = Raised("FetchError")
                   /\ UNCHANGED entry_film
        /\ UNCHANGED <<record, number_of_entries, offRes>>

RECURSIVE search_from(_, _)
\* EntryList.search_film from entry e on: an entry that holds the slug as a str
\* is returned; otherwise entry.film.slug is read, which a str does not have.
search_from(e, slug) ==
    IF e > MaxEntries THEN [tag |-> "None"]
    ELSE IF IsStr(entry_film[e]) /\ entry_film[e].slug = slug
    THEN [tag |-> "entry", e |-> e]
    ELSE IF IsStr(entry_film[e]) THEN Raised("AttributeError")
    ELSE IF entry_film[e].slug = slug THEN [tag |-> "entry", e |-> e]
    ELSE search_from(e + 1, slug)

SearchFilm(slug) ==
    /\ record = "EntryList"
    /\ call' = Call("search_film", slug)
    /\ ret' = search_from(1, slug)
    /\ UNCHANGED <<entry_film, attempts, film_fetches, film_failures, record,
                   number_of_entries, offRes>>

NextResolve ==
    \/ \E e \in EntryIds : GetFilmDetails(e)
    \/ \E e \in EntryIds : GetFilmDetailsFails(e)
    \/ \E e \in EntryIds : FilmAttribute(e)
    \/ \E e \in EntryIds : FilmAttributeFails(e)
    \/ \E limit \in Limits : GetFilms(limit)
    \/ \E slug \in Slugs : GetFilm(slug)
    \/ \E slug \in Slugs : SearchFilm(slug)

SpecResolve == InitResolve /\ [][NextResolve]_vars

---------------------------------------------------------------------------
(* Fetcher._fetch_page under its retry decorator (fetcher.py). *)

\* _fetch_page calls of one session of the model.
MaxFetches == 2

\* stop_after_attempt(5)
StopAfterAttempt == 5

\* def is_retryable_exception(self, exception): the parameters it takes.
PredicateParams == 2

\* The status codes is_retryable_exception names.
TransientStatus == {429, 500, 502, 503, 504}

\* The response of the site to one request: 200, a transient status, a client
\* error, or 0 for a request that raised without a response (ConnectionError).
Statuses == {200, 404, 0} \cup TransientStatus

\* The delay argument, in hundredths of a second: the default and values on
\* both sides of 2.99.
Delays == {100, 299, 300, 600}

\* if delay <= 2.99: uniform(1, 3), else uniform(delay/2, delay): the interval
\* the sleep is drawn from.
SleepRangeNone(d) == IF d <= 299 THEN <<0, 0>> ELSE <<d \div 2, d>>
SleepRange(d) == IF d <= 299 THEN <<100, 300>> ELSE <<d \div 2, d>>

\* retry=is_retryable_exception: the retry loop calls its predicate with the
\* arguments args.  The plain function of two parameters cannot be called
\* with another number of arguments (TypeError); called properly, it asks for
\* a retry exactly on an HTTPError with a transient status.
is_retryable_always(args, status) == "retry"
is_retryable_exception(args, status) ==
    IF Len(args) # PredicateParams THEN "TypeError"
    ELSE IF status \in TransientStatus THEN "retry"
    ELSE "stop"

\* The retry loop passes its retry state, and nothing else.
PredicateArgs == <<"retry_state">>

\* response.content
Content == [tag |-> "content"]

\* A caller (fetch_soup) calls _fetch_page(url, delay): the first attempt.
FetchPage(d) ==
    /\ fpc \in {"idle", "done"}
    /\ fcalls < MaxFetches
    /\ fcalls' = fcalls + 1
    /\ delay' = d
    /\ attempt_number' = 1
    /\ outcome' = 0
    /\ fresult' = NoResult
    /\ fpc' = "sleep"
    /\ UNCHANGED <<events, offFetch>>

\* sleep(round(uniform(...), 2)) at the head of _fetch_page.
FetchSleep ==
    /\ fpc = "sleep"
    /\ events' = Append(events, <<"sleep", SleepRange(delay)>>)
    /\ fpc' = "get"
    /\ UNCHANGED <<delay, attempt_number, outcome, fresult, fcalls, offFetch>>

\* self.session.get(url) and raise_for_status(): the attempt ends with the
\* content or with the exception, which is logged and raised again.
SessionGet(status) ==
    /\ fpc = "get"
    /\ events' = Append(events, <<"get", status>>)
    /\ outcome' = status
    /\ fpc' = "retry"
    /\ UNCHANGED <<delay, attempt_number, fresult, fcalls, offFetch>>

\* The retry loop after an attempt: it asks the predicate; without a retry
\* the outcome of the attempt goes to the caller; with one, the loop stops
\* after the fifth attempt (RetryError) and otherwise waits
\* (wait_exponential) and attempts again.
AfterAttempt ==
    /\ fpc = "retry"
    /\ LET d == is_retryable_exception(PredicateArgs, outcome)
       IN  IF d = "TypeError"
           THEN /\ fresult' = Raised("TypeError")
                /\ fpc' = "done"
                /\ UNCHANGED <<attempt_number, events>>
           ELSE IF d = "stop"
           THEN /\ fresult' = IF outcome = 200 THEN Content
                               ELSE IF outcome = 0 THEN Raised("ConnectionError")
                               ELSE Raised("HTTPError")
                /\ fpc' = "done"
                /\ UNCHANGED <<attempt_number, events>>
           ELSE IF attempt_number >= StopAfterAttempt
           THEN /\ fresult' = Raised("RetryError")
                /\ fpc' = "done"
                /\ UNCHANGED <<attempt_number, events>>
           ELSE /\ events' = Append(events, <<"wait", attempt_number>>)
                /\ attempt_number' = attempt_number + 1
                /\ fpc' = "sleep"
                /\ UNCHANGED fresult
    /\ UNCHANGED <<delay, outcome, fcalls, offFetch>>

InitFetch ==
    /\ impl = "model"
    /\ kind = "logs"
    /\ AggIdle
    /\ ResIdle
    /\ FetchIdle
    /\ RateIdle
    /\ ThreadsIdle

NextFetch ==
    \/ \E d \in Delays : FetchPage(d)
    \/ FetchSleep
    \/ \E status \in Statuses : SessionGet(status)
    \/ AfterAttempt

SpecFetch == InitFetch /\ [][NextFetch]_vars

---------------------------------------------------------------------------
(* The page parsers that read a rating: _parse_slugs_with_rating (logs),   *)
(* _parse_diary_page and _parse_review_page, in models/user.py and         *)
(* parser/user.py.  A class attribute is a list of tokens and a token a    *)
(* sequence of characters.                                                 *)

\* The items on one parsed page of the model.
MaxRows == 2

\* The kinds whose page parser reads a rating.
RatedKinds == {"logs", "diary", "reviews"}

\* The ratings the site shows, in half stars: rated-1 .. rated-10.
HalfStars == 1..10

DigitChars == <<"0", "1", "2", "3", "4", "5", "6", "7", "8", "9">>

\* The decimal digits of n, for n below 100.
Digits(n) ==
    IF n < 10 THEN <<DigitChars[n + 1]>>
    ELSE <<DigitChars[(n \div 10) + 1], DigitChars[(n % 10) + 1]>>

\* The class token "rated-N".
RatedToken(n) == <<"r", "a", "t", "e", "d", "-">> \o Digits(n)

\* rating_span.get("class"): the class tokens of the span that the parser of
\* kind k finds, "rating -micro -darker rated-N", "rating rated-N" and
\* "rating -green rated-N".
ClassTokens(k, n) ==
    LET rating == <<"r", "a", "t", "i", "n", "g">>
        micro == <<"-", "m", "i", "c", "r", "o">>
        darker == <<"-", "d", "a", "r", "k", "e", "r">>
        green == <<"-", "g", "r", "e", "e", "n">>
    IN  CASE k = "logs" -> <<rating, micro, darker, RatedToken(n)>>
          [] k = "diary" -> <<rating, RatedToken(n)>>
          [] k = "reviews" -> <<rating, green, RatedToken(n)>>

\* The index read from the class tokens: [3], [1], [2].
RatingIndexFirst(k) == 0
RatingIndex(k) ==
    CASE k = "logs" -> 3
      [] k = "diary" -> 1
      [] k = "reviews" -> 2

\* raw_rating[6:]
Slice6(tok) == SubSeq(tok, 7, Len(tok))

\* The digit a character stands for, or -1.
DigitOf(c) ==
    IF \E d \in 0..9 : DigitChars[d + 1] = c
    THEN CHOOSE d \in 0..9 : DigitChars[d + 1] = c
    ELSE -1

RECURSIVE DigitsValue(_)
\* The number a nonempty sequence of digits denotes, or -1.
DigitsValue(cs) ==
    IF cs = <<>> THEN -1
    ELSE LET d == DigitOf(cs[Len(cs)])
             rest == SubSeq(cs, 1, Len(cs) - 1)
         IN  IF d < 0 THEN -1
             ELSE IF rest = <<>> THEN d
             ELSE IF DigitsValue(rest) < 0 THEN -1
             ELSE 10 * DigitsValue(rest) + d

\* int(text): the integer, with an optional sign; ValueError otherwise.
int(cs) ==
    LET signed == cs # <<>> /\ cs[1] \in {"-", "+"}
        body == IF signed THEN Tail(cs) ELSE cs
        v == DigitsValue(body)
    IN  IF v < 0 THEN [ok |-> FALSE, val |-> 0]
        ELSE [ok |-> TRUE, val |-> IF signed /\ cs[1] = "-" THEN 0 - v ELSE v]

\* int(...) / 2: the float n / 2, kept as its numerator over 2.
Half(n) == [present |-> TRUE, num |-> n, den |-> 2]

\* An item of a page: whether it holds a rating span, the N of its rated-N
\* token, and, on a diary row, whether it holds a review link.
Rows(k) ==
    [span : {TRUE}, n : HalfStars, review : IF k = "diary" THEN BOOLEAN ELSE {k = "reviews"}]
    \cup [span : {FALSE}, n : {0}, review : {k = "reviews"}]

\* Entry(film=..., watched_date=..., rating=..., review=...) as each parser
\* builds it: a log has neither date nor review, a diary row has a review
\* only with a review link.
Entry(k, r, rating) ==
    [watched_date |-> k # "logs", rating |-> rating, review |-> r.review]

RECURSIVE SeqsUpTo(_, _)
\* The sequences over S of length at most n.
SeqsUpTo(S, n) ==
    IF n = 0 THEN {<<>>}
    ELSE LET shorter == SeqsUpTo(S, n - 1)
         IN  shorter \cup {Append(q, x) : q \in shorter, x \in S}

InitRating ==
    /\ impl \in Impls
    /\ kind \in RatedKinds
    /\ AggIdle
    /\ ResIdle
    /\ FetchIdle
    /\ rows \in SeqsUpTo(Rows(kind), MaxRows)
    /\ row = 1
    /\ parsed = <<>>
    /\ rpc = "rows"
    /\ perr = NoResult
    /\ ThreadsIdle

\* One pass of the parser's loop: the rating span is found, its class token
\* read, cut and converted, and the entry appended.  An item without the span
\* makes rating_span None, and None has no get.
ParseRow ==
    /\ rpc = "rows"
    /\ row <= Len(rows)
    /\ LET r == rows[row]
           tokens == ClassTokens(kind, r.n)
           i == RatingIndex(kind) + 1
           v == int(Slice6(tokens[i]))
       IN  IF ~r.span
           THEN /\ perr' = Raised("AttributeError")
                /\ rpc' = "raised"
                /\ UNCHANGED <<row, parsed>>
           ELSE IF i > Len(tokens)
           THEN /\ perr' = Raised("IndexError")
                /\ rpc' = "raised"
                /\ UNCHANGED <<row, parsed>>
           ELSE IF ~v.ok
           THEN /\ perr' = Raised("ValueError")
                /\ rpc' = "raised"
                /\ UNCHANGED <<row, parsed>>
           ELSE /\ parsed' = Append(parsed, Entry(kind, r, Half(v.val)))
                /\ row' = row + 1
                /\ UNCHANGED <<rpc, perr>>
    /\ UNCHANGED <<rows, impl, kind, offRate>>

\* The loop is over: the parser returns its list.
ParseReturn ==
    /\ rpc = "rows"
    /\ row > Len(rows)
    /\ rpc' = "returned"
    /\ UNCHANGED <<rows, row, parsed, perr, impl, kind, offRate>>

NextRating ==
    \/ ParseRow
    \/ ParseReturn

SpecRating == InitRating /\ [][NextRating]_vars

---------------------------------------------------------------------------
(* Threads that read attributes of one Film (models/film.py): each read    *)
(* goes through cached_property and Film._get_soup, one step per access to *)
(* the shared object.                                                      *)

\* The threads that share the Film.
MaxThreads == 2

Threads == 1..MaxThreads

\* Attributes of Film that are parsed from its main page.
Attrs == {"title", "year"}

\* The threads inside the computation of attribute a.
Computing(a) ==
    {t \in Threads : tattr[t] = a
                      /\ tpc[t] \in {"check", "fetch", "store", "return", "parse"}}

InitThreads ==
    /\ impl = "model"
    /\ kind = "logs"
    /\ AggIdle
    /\ ResIdle
    /\ FetchIdle
    /\ RateIdle
    /\ FilmIdle
    /\ has_lock \in BOOLEAN
    /\ tpc = [t \in Threads |-> "idle"]
    /\ tattr = [t \in Threads |-> "none"]
    /\ tlocal = [t \in Threads |-> 0]
    /\ tseen = [t \in Threads |-> 0]
    /\ _soup = 0
    /\ cached_attrs = [a \in Attrs |-> 0]
    /\ page_fetches = 0

\* cached_property.__get__: the value in the instance's __dict__ is returned;
\* without one the attribute is computed, under the property's lock where
\* cached_property has one.
ReadAttribute(t, a) ==
    /\ tpc[t] = "idle"
    /\ tattr' = [tattr EXCEPT ![t] = a]
    /\ IF cached_attrs[a] # 0
       THEN /\ tseen' = [tseen EXCEPT ![t] = cached_attrs[a]]
            /\ tpc' = [tpc EXCEPT ![t] = "done"]
       ELSE /\ tpc' = [tpc EXCEPT ![t] = IF has_lock THEN "lock" ELSE "check"]
            /\ UNCHANGED tseen
    /\ UNCHANGED <<has_lock, tlocal, _soup, cached_attrs, page_fetches,
                   offThreads>>

\* with self.lock: the thread enters when no other thread computes the same
\* property, and looks into __dict__ again.
AcquireLock(t) ==
    /\ tpc[t] = "lock"
    /\ Computing(tattr[t]) = {}
    /\ IF cached_attrs[tattr[t]] # 0
       THEN /\ tseen' = [tseen EXCEPT ![t] = cached_attrs[tattr[t]]]
            /\ tpc' = [tpc EXCEPT ![t] = "done"]
       ELSE /\ tpc' = [tpc EXCEPT ![t] = "check"]
            /\ UNCHANGED tseen
    /\ UNCHANGED <<has_lock, tattr, tlocal, _soup, cached_attrs, page_fetches,
                   offThreads>>

\* Film._get_soup: if self._soup is None
CheckSoup(t) ==
    /\ tpc[t] = "check"
    /\ IF _soup = 0
       THEN /\ tpc' = [tpc EXCEPT ![t] = "fetch"]
            /\ UNCHANGED tlocal
       ELSE /\ tlocal' = [tlocal EXCEPT ![t] = _soup]
            /\ tpc' = [tpc EXCEPT ![t] = "parse"]
    /\ UNCHANGED <<has_lock, tattr, tseen, _soup, cached_attrs, page_fetches,
                   offThreads>>

\* self.fetcher.fetch_film(self.slug): the site serves a version of the page.
FetchFilmPage(t) ==
    /\ tpc[t] = "fetch"
    /\ \E v \in Versions : tlocal' = [tlocal EXCEPT ![t] = v]
    /\ page_fetches' = page_fetches + 1
    /\ tpc' = [tpc EXCEPT ![t] = "store"]
    /\ UNCHANGED <<has_lock, tattr, tseen, _soup, cached_attrs, offThreads>>

\* self._soup = <the page fetched>
StoreSoup(t) ==
    /\ tpc[t] = "store"
    /\ _soup' = tlocal[t]
    /\ tpc' = [tpc EXCEPT ![t] = "return"]
    /\ UNCHANGED <<has_lock, tattr, tlocal, tseen, cached_attrs, page_fetches,
                   offThreads>>

\* return self._soup
ReturnSoup(t) ==
    /\ tpc[t] = "return"
    /\ tlocal' = [tlocal EXCEPT ![t] = _soup]
    /\ tpc' = [tpc EXCEPT ![t] = "parse"]
    /\ UNCHANGED <<has_lock, tattr, tseen, _soup, cached_attrs, page_fetches,
                   offThreads>>

\* The attribute is parsed from the soup, stored in __dict__ and returned.
StoreAttribute(t) ==
    /\ tpc[t] = "parse"
    /\ cached_attrs' = [cached_attrs EXCEPT ![tattr[t]] = tlocal[t]]
    /\ tseen' = [tseen EXCEPT ![t] = tlocal[t]]
    /\ tpc' = [tpc EXCEPT ![t] = "done"]
    /\ UNCHANGED <<has_lock, tattr, tlocal, _soup, page_fetches, offThreads>>

NextThreads ==
    \/ \E t \in Threads, a \in Attrs : ReadAttribute(t, a)
    \/ \E t \in Threads : AcquireLock(t)
    \/ \E t \in Threads : CheckSoup(t)
    \/ \E t \in Threads : FetchFilmPage(t)
    \/ \E t \in Threads : StoreSoup(t)
    \/ \E t \in Threads : ReturnSoup(t)
    \/ \E t \in Threads : StoreAttribute(t)

SpecThreads == InitThreads /\ [][NextThreads]_vars

---------------------------------------------------------------------------
(* One Film read by one caller (models/film.py): attribute reads through   *)
(* cached_property, the two page getters, and __repr__.                    *)

\* Attributes of Film: title and year are parsed from the main page,
\* nanogenres from the nanogenres page.
FilmAttrs == {"title", "year", "nanogenres"}

\* _parse_nanogenres reads _get_nano_soup(), the other parsers _get_soup().
PageOf(a) == IF a = "nanogenres" THEN "nano" ELSE "main"

\* What a fetch of a page of the film gives: a version of the page, or 0 for
\* the FetchError of a fetch that failed.
FetchOutcomes == Versions \cup {0}

\* 'title' in self.__dict__
InDictAlways(d, a) == TRUE
InDict(d, a) == d[a] # 0

\* if self._soup is None / if self._nano_soup is None
IsNoneAlways(s) == TRUE
IsNone(s) == s = 0

\* The Film as one value, with the requests and the exception of the operation
\* under way.
ThisFilm ==
    [_soup |-> _soup, _nano_soup |-> _nano_soup, dict |-> cached_attrs,
     page_fetches |-> page_fetches, nano_fetches |-> nano_fetches,
     fetch_errors |-> fetch_errors, requests |-> 0, raised |-> FALSE, got |-> 0]

\* Film._get_soup: the main page is fetched when self._soup is None, and kept.
_get_soup(f, v) ==
    IF ~IsNone(f._soup) THEN [f EXCEPT !.got = f._soup]
    ELSE IF v = 0
    THEN [f EXCEPT !.page_fetches = @ + 1, !.requests = @ + 1,
                   !.fetch_errors = @ + 1, !.raised = TRUE]
    ELSE [f EXCEPT !.page_fetches = @ + 1, !.requests = @ + 1,
                   !._soup = v, !.got = v]

\* Film._get_nano_soup: the same for the nanogenres page.
_get_nano_soup(f, v) ==
    IF ~IsNone(f._nano_soup) THEN [f EXCEPT !.got = f._nano_soup]
    ELSE IF v = 0
    THEN [f EXCEPT !.nano_fetches = @ + 1, !.requests = @ + 1,
                   !.fetch_errors = @ + 1, !.raised = TRUE]
    ELSE [f EXCEPT !.nano_fetches = @ + 1, !.requests = @ + 1,
                   !._nano_soup = v, !.got = v]

\* cached_property.__get__ for attribute a: the value in __dict__, or the value
\* parsed from the attribute's page, which is then stored in __dict__. An
\* exception of the fetch passes through and nothing is stored.
getattr(f, a, v) ==
    IF f.raised THEN f
    ELSE IF f.dict[a] # 0 THEN [f EXCEPT !.got = f.dict[a]]
    ELSE LET g == IF PageOf(a) = "nano" THEN _get_nano_soup(f, v)
                  ELSE _get_soup(f, v)
         IN  IF g.raised THEN g ELSE [g EXCEPT !.dict[a] = g.got]

\* The operation ends: the Film is as the operation left it.
Becomes(f) ==
    /\ _soup' = f._soup
    /\ _nano_soup' = f._nano_soup
    /\ cached_attrs' = f.dict
    /\ page_fetches' = f.page_fetches
    /\ nano_fetches' = f.nano_fetches
    /\ fetch_errors' = f.fetch_errors

\* A fetch fails at most MaxFilmFailures times in a session.
MayFail(f) == f.fetch_errors <= MaxFilmFailures

InitFilm ==
    /\ impl = "model"
    /\ kind = "logs"
    /\ AggIdle
    /\ ResIdle
    /\ FetchIdle
    /\ RateIdle
    /\ has_lock = FALSE
    /\ tpc = <<>>
    /\ tattr = <<>>
    /\ tlocal = <<>>
    /\ tseen = <<>>
    /\ _soup = 0
    /\ _nano_soup = 0
    /\ cached_attrs = [a \in FilmAttrs |-> 0]
    /\ page_fetches = 0
    /\ nano_fetches = 0
    /\ fetch_errors = 0
    /\ access = NoAccess
    /\ repr = NoRepr

\* film.<a>: the attribute is read.
GetAttribute(a) ==
    \E v \in FetchOutcomes :
        LET f == getattr(ThisFilm, a, v)
        IN  /\ MayFail(f)
            /\ Becomes(f)
            /\ access' = [op |-> a,
                          had |-> ~IsNone(IF PageOf(a) = "nano" THEN _nano_soup
                                         ELSE _soup),
                          requests |-> f.requests,
                          got |-> IF f.raised THEN 0 ELSE f.got]
            /\ UNCHANGED <<repr, offFilm>>

\* Film.__repr__: the slug, and title and year where __dict__ holds them.
Repr ==
    \E v1 \in FetchOutcomes, v2 \in FetchOutcomes :
        LET f0 == ThisFilm
            f1 == IF InDict(f0.dict, "title") THEN getattr(f0, "title", v1)
                  ELSE f0
            f2 == IF InDict(f1.dict, "year") THEN getattr(f1, "year", v2)
                  ELSE f1
        IN  /\ MayFail(f2)
            /\ Becomes(f2)
            /\ access' = [op |-> "__repr__", had |-> FALSE,
                          requests |-> f2.requests, got |-> 0]
            /\ repr' = IF f2.raised THEN Raised("FetchError")
                       ELSE [slug |-> "barbie"]
                            @@ (IF InDict(f0.dict, "title")
                                THEN [title |-> f1.got] ELSE <<>>)
                            @@ (IF InDict(f1.dict, "year")
                                THEN [year |-> f2.got] ELSE <<>>)
            /\ UNCHANGED offFilm

NextFilm ==
    \/ \E a \in FilmAttrs : GetAttribute(a)
    \/ Repr

SpecFilm == InitFilm /\ [][NextFilm]_vars

---------------------------------------------------------------------------
(* User._get_soup under @lru_cache() (models/user.py 29-45) with the size  *)
(* of the cache, and the cached properties that call it.  A property       *)
(* access is one step: the property's aggregation runs through its pages.  *)

\* @lru_cache(): maxsize is left at its default, 128 entries.
LruMaxsize == 128

\* The listings of the model span one page, or about as many pages as the
\* cache holds entries: up to MaxExtraPages more.
MaxExtraPages == 1

PageCounts == {1} \cup ((LruMaxsize - 1)..(LruMaxsize + MaxExtraPages))

\* Properties of User that read pages through _get_soup: two that read the
\* profile page and a paginated listing.
OnePageProps == {"total_logs", "favourites"}

PagedProps == {"logs"}

UserProps == OnePageProps \cup PagedProps

\* The fetch function a property passes to _get_soup.
FetchFunction(prop) ==
    IF prop \in OnePageProps THEN "fetch_user" ELSE "fetch_logs"

\* lru_cache: the call's key is in the cache.
InCacheNever(l, key) == FALSE
InCache(l, key) == \E i \in DOMAIN l : l[i] = key

\* lru_cache on a hit: the entry becomes the most recently used.
Touch(l, key) == SelectSeq(l, LAMBDA x : x # key) \o <<key>>

\* lru_cache on a miss whose call returned: the result is stored, in place of
\* the least recently used entry when the cache is full.
InsertNothing(l, key) == l
Insert(l, key) ==
    IF Len(l) >= LruMaxsize THEN Append(Tail(l), key) ELSE Append(l, key)

\* The pages at which the model lets a fetch fail: the first and the last.
FailPages(n) == {1, n}

\* One pass of an aggregation's loop, for page p of the listing read with fetch
\* function fn; the fetch of page j fails, if it is sent.  A hit is answered by
\* the cache; a miss is requested from the Fetcher and stored when it returns;
\* after the exception of a failed fetch nothing more is done.
GetSoup(r, fn, p, j) ==
    IF r.failed # 0 THEN r
    ELSE LET key == Key(fn, p)
         IN  IF InCache(r.lru, key) THEN [r EXCEPT !.lru = Touch(@, key)]
             ELSE LET q == [r EXCEPT !.requested = @ \cup {p},
                                     !.refetched = IF key \in r.ok_keys
                                                   THEN @ \cup {key} ELSE @]
                  IN  IF p = j THEN [q EXCEPT !.failed = p]
                      ELSE [q EXCEPT !.lru = Insert(@, key),
                                     !.ok_keys = @ \cup {key}]

\* The pages lo..hi of an aggregation in increasing order (page 1, then
\* for page in range(2, page_count + 1)), evaluated by halves.
RECURSIVE RunPages(_, _, _, _, _)
RunPages(r, fn, lo, hi, j) ==
    IF lo > hi THEN r
    ELSE IF lo = hi THEN GetSoup(r, fn, lo, j)
    ELSE LET mid == (lo + hi) \div 2
             done == RunPages(r, fn, lo, mid, j)
         IN  IF done.failed # 0 THEN done
             ELSE RunPages(done, fn, mid + 1, hi, j)

InitCache ==
    /\ impl = "model"
    /\ kind = "logs"
    /\ UserIdle
    /\ ResIdle
    /\ FetchIdle
    /\ RateIdle
    /\ ThreadsIdle
    /\ lru = <<>>
    /\ uprops = {}
    /\ pages_of \in {f \in [UserProps -> PageCounts] :
                         \A prop \in OnePageProps : f[prop] = 1}
    /\ ok_keys = {}
    /\ refetched = {}
    /\ failed_at = [prop \in UserProps |-> 0]
    /\ last_access = NoProperty

\* user.<prop>: cached_property returns the stored value, or runs the
\* aggregation and stores what it returns; an exception stores nothing.
GetProperty(prop) ==
    /\ IF prop \in uprops
       THEN /\ last_access' = [prop |-> prop, how |-> "cached",
                               requested |-> {}, after |-> failed_at[prop]]
            /\ UNCHANGED <<lru, uprops, ok_keys, refetched, failed_at, failures>>
       ELSE \E j \in {0} \cup FailPages(pages_of[prop]) :
               LET r == RunPages([lru |-> lru, ok_keys |-> ok_keys,
                                  refetched |-> refetched, requested |-> {},
                                  failed |-> 0],
                                 FetchFunction(prop), 1, pages_of[prop], j)
               IN  /\ r.failed = j
                   /\ j # 0 => failures < MaxFailures
                   /\ failures' = failures + (IF j # 0 THEN 1 ELSE 0)
                   /\ lru' = r.lru
                   /\ ok_keys' = r.ok_keys
                   /\ refetched' = r.refetched
                   /\ uprops' = IF j = 0 THEN uprops \cup {prop} ELSE uprops
                   /\ failed_at' = [failed_at EXCEPT ![prop] = j]
                   /\ last_access' =
                         [prop |-> prop,
                          how |-> IF j = 0 THEN "returned" ELSE "raised",
                          requested |-> r.requested,
                          after |-> failed_at[prop]]
    /\ UNCHANGED <<pages_of, offCache>>

NextCache == \E prop \in UserProps : GetProperty(prop)

SpecCache == InitCache /\ [][NextCache]_vars

---------------------------------------------------------------------------
(* Vocabulary of the properties. *)

\* The least n with n * b >= a, computed without the program's arithmetic.
CeilDiv(a, b) == CHOOSE n \in 0..a : n * b >= a /\ (n - 1) * b < a

\* The pages a listing that declares total spans: one, or ceil(total / size).
PagesOf(total, size) == IF total > size THEN CeilDiv(total, size) ELSE 1

\* The films of a UserList in order: the list, or the dict read by rank.
FilmsOf(ul) ==
    IF ul.films.type = "list" THEN ul.films.val
    ELSE [i \in 1..Cardinality(DOMAIN ul.films.val) |->
             IF i \in DOMAIN ul.films.val THEN ul.films.val[i] ELSE <<0, 0>>]

\* The entry sequence of a returned value.
ResultEntries(r) == IF r.tag = "UserList" THEN FilmsOf(r) ELSE r.entries

IsRecord(r) == r.tag \in {"EntryList", "UserList"}

\* An aggregation of logs, diary, reviews or watchlist has returned in this run.
Returned == pc = "returned" /\ kind \in PlainKinds

\* A film-list aggregation has returned, and the run histories are its own.
ListDone == inner = "done"

\* Every page parsed in this run held what the declared total implies.
PagesAsDeclared(k) ==
    \A p \in DOMAIN served : Len(served[p]) = Expected(first.total, PageSize(k), p)

\* The requests for listing pages that reached the Fetcher in this run.
ListingFetches == SelectSeq(fetched, LAMBDA key : key[1] = kind)

---------------------------------------------------------------------------
(* C1 *)

\* C1 as stated: whenever an aggregation of any kind completes and returns, the
\* number of entries it returns equals the total declared on page 1.
C1_DeclaredTotalReached ==
    /\ Returned => Len(ResultEntries(result)) = first.total
    /\ ListDone => Len(FilmsOf(user_lists[Len(user_lists)])) = first.total

\* C1, amended: a returned aggregate holds exactly as many entries as were
\* parsed from the pages of the run, a record's declared total is the count
\* parsed from page 1, and the two agree when every page held what the declared
\* total implies; the code never compares them.
C1_EntriesAreThoseParsed ==
    /\ Returned =>
          /\ Len(ResultEntries(result)) = Len(Concat(served))
          /\ IsRecord(result) => result.number = first.total
          /\ PagesAsDeclared(kind) => Len(ResultEntries(result)) = first.total
    /\ ListDone =>
          LET ul == user_lists[Len(user_lists)]
          IN  /\ Len(FilmsOf(ul)) = Len(Concat(served))
              /\ ul.number = first.total
              /\ PagesAsDeclared("filmlist") => Len(FilmsOf(ul)) = first.total
    /\ (pc = "returned" /\ kind = "lists" /\ result.tag = "list") =>
          /\ result.entries = user_lists
          /\ Len(user_lists) = Len(Concat([i \in DOMAIN lserved |->
                                              [j \in 1..lserved[i] |-> j]]))

C1_Witness ==
    /\ Returned /\ kind = "logs"
    /\ Len(served) = 2
    /\ result.number = 130
    /\ Len(result.entries) = 130

---------------------------------------------------------------------------
(* C2 *)

\* C2: the entries of a returned aggregate are the concatenation of the item
\* lists parsed from pages 1, 2, ..., page_count, in that order and each in its
\* on-page order: nothing is reordered, dropped or duplicated.
C2_EntriesAreConcatenation ==
    LET inOrder(k) ==
            /\ Len(served) = PagesOf(first.total, PageSize(k))
            /\ \A p \in DOMAIN served : \A j \in DOMAIN served[p] :
                   served[p][j] = <<p, j>>
    IN  /\ Returned => ResultEntries(result) = Concat(served) /\ inOrder(kind)
        /\ ListDone =>
              /\ FilmsOf(user_lists[Len(user_lists)]) = Concat(served)
              /\ inOrder("filmlist")

C2_Witness ==
    /\ Returned /\ kind = "diary"
    /\ Len(served) = 3
    /\ \A p \in 1..3 : served[p] # <<>>
    /\ Len(result.entries) > 2 * DiaryPageSize

---------------------------------------------------------------------------
(* C3 *)

\* C3: in one aggregation the pages are requested in strictly increasing order
\* from page 1, none twice and none skipped, and a page is requested only after
\* every page before it has been fetched and parsed.
C3_PagesRequestedInOrder ==
    /\ \A i \in DOMAIN requested : requested[i] = i
    /\ \A i \in DOMAIN lrequested : lrequested[i] = i
    /\ Len(requested) <= Len(served) + 1
    /\ Len(lrequested) <= Len(lserved) + 1
    /\ pc \in {"loop", "list_loop"} => Len(requested) = Len(served)
    /\ Returned => Len(requested) = PagesOf(first.total, PageSize(kind))
    /\ ListDone => Len(requested) = PagesOf(first.total, PageSize("filmlist"))

C3_Witness ==
    /\ Returned /\ kind = "reviews"
    /\ requested = <<1, 2, 3>>
    /\ Len(served) = 3

---------------------------------------------------------------------------
(* C4 *)

---------------------------------------------------------------------------
(* C5 *)

\* C5 as stated: when the declared total is at most the page size and no fetch
\* fails, exactly one listing page is fetched and a value is returned; with a
\* declared total of 0 it has no entries and no error is raised.
C5_SinglePageReturnsRecord ==
    (/\ kind \in PlainKinds
     /\ pc \in {"returned", "raised"}
     /\ failures = 0
     /\ first # NoSoup
     /\ first.total <= PageSize(kind)) =>
        /\ pc = "returned"
        /\ ListingFetches = <<Key(kind, 1)>>
        /\ first.total = 0 => ResultEntries(result) = <<>>

---------------------------------------------------------------------------
(* C6 *)

\* C6 as stated: when the fetch of page k >= 2 fails, the aggregation reports a
\* PartialFailure that carries completed_pages = k - 1 and total_pages =
\* page_count.
C6_PartialFailureReported ==
    (kind \in PlainKinds /\ failedPage >= 2) =>
        /\ result.tag = "PartialFailure"
        /\ result.completed_pages = failedPage - 1
        /\ result.total_pages = page_count

\* C6, amended: when the fetch of page k >= 2 fails, the aggregation ends at
\* once with the Fetcher's exception and nothing else: no value is returned or
\* kept, and the exception carries no page counts (k - 1 pages had been merged
\* and page_count = ceil(total / page size) pages were due).
C6_FetchFailureAborts ==
    failedPage >= 2 =>
        /\ pc = "raised"
        /\ result = Raised("FetchError")
        /\ kind \notin DOMAIN props
        /\ kind \in PlainKinds =>
              /\ requested[Len(requested)] = failedPage
              /\ Len(served) = failedPage - 1
              /\ page_count = CeilDiv(first.total, PageSize(kind))
              /\ failedPage <= page_count

C6_Witness ==
    /\ kind = "logs" /\ pc = "raised"
    /\ failedPage = 3
    /\ Len(served) = 2
    /\ page_count > 3

---------------------------------------------------------------------------
(* C7 *)

\* Every page of the listing was fetched and parsed, and the entries collected
\* are not as many as page 1 declared.
CountDrift ==
    /\ kind \in PlainKinds
    /\ first # NoSoup
    /\ Len(served) = PagesOf(first.total, PageSize(kind))
    /\ Len(Concat(served)) # first.total

\* C7 as stated: when all pages were fetched and the number of entries
\* collected differs from the declared total, CountMismatch is reported with
\* the expected and the actual count instead of a record.
C7_CountMismatchReported ==
    CountDrift =>
        /\ result.tag = "CountMismatch"
        /\ result.expected = first.total
        /\ result.actual = Len(Concat(served))

\* C7, amended: in that case the aggregation returns like any other: the value
\* holds the entries collected, and a record carries the declared total beside
\* them (declared 130 with 125 collected gives a record with number 130 and 125
\* entries).
C7_DriftIsReturned ==
    CountDrift =>
        /\ pc = "returned"
        /\ result.tag \in {"EntryList", "UserList", "list"}
        /\ ResultEntries(result) = Concat(served)
        /\ IsRecord(result) => result.number = first.total

C7_Witness ==
    /\ CountDrift /\ kind = "logs"
    /\ result.tag = "EntryList"
    /\ result.number = 130
    /\ Len(result.entries) = 125

---------------------------------------------------------------------------
(* C8 *)

\* Page 1 declares a positive total and holds no item.
EmptyFirstPage ==
    /\ kind \in PlainKinds
    /\ first # NoSoup
    /\ first.total > 0
    /\ first.n = 0

\* C8 as stated: when page 1 declares a positive total and its parse yields no
\* entry, InconsistentPage is reported and no record is returned.
C8_InconsistentPageReported ==
    (EmptyFirstPage /\ pc \in {"returned", "raised"}) =>
        result.tag = "InconsistentPage"

\* C8, amended: no such error exists.  The User methods, and parse_user_diary
\* and parse_user_reviews, merge the empty page like any other and go on: the
\* value returned holds the entries of the later pages, none when the total
\* fits one page.  parse_logs and parse_watchlist raise TypeError, because
\* their slug parsers return None for a page without items.
C8_EmptyFirstPageIsMerged ==
    EmptyFirstPage =>
        IF impl = "parser" /\ kind \in {"logs", "watchlist"}
        THEN /\ pc = "raised"
             /\ result = Raised("TypeError")
             /\ served = <<>>
        ELSE /\ served # <<>>
             /\ served[1] = <<>>
             /\ pc = "raised" => result = Raised("FetchError")
             /\ pc = "returned" => ResultEntries(result) = Concat(Tail(served))
             /\ first.total <= PageSize(kind) =>
                   pc = "returned" /\ ResultEntries(result) = <<>>

C8_Witness ==
    /\ EmptyFirstPage /\ impl = "model" /\ kind = "logs"
    /\ pc = "returned"
    /\ Len(served) > 1
    /\ result.entries = served[2]
    /\ result.entries # <<>>

---------------------------------------------------------------------------
(* C9 *)

\* C9: the rank map of a numbered film list with N collected films has exactly
\* the keys 1..N, and rank i maps to the i-th film in page-fetch order.
C9_RanksAreOneToN ==
    (ListDone /\ user_lists[Len(user_lists)].films.type = "dict") =>
        LET ranks == user_lists[Len(user_lists)].films.val
            films == Concat(served)
        IN  /\ DOMAIN ranks = 1..Len(films)
            /\ \A i \in 1..Len(films) : ranks[i] = films[i]

C9_Witness ==
    /\ ListDone
    /\ user_lists[Len(user_lists)].films.type = "dict"
    /\ Len(served) = 2
    /\ Cardinality(DOMAIN user_lists[Len(user_lists)].films.val) > FilmListPageSize

---------------------------------------------------------------------------
(* C10 *)

\* The film of entry e holds its attributes.
Hydrated(e) == entry_film[e].tag = "Film" /\ entry_film[e].title # 0

\* The fetches of the page of slug that the entries caused.
AttemptsOn(slug) ==
    UNION {{<<e, i>> : i \in DOMAIN attempts[e]} :
              e \in {x \in DOMAIN attempts : entry_film[x].slug = slug}}

\* C10 as stated: in one session the page of a film identifier is fetched at
\* most once, and two entries with the same identifier resolve to identical
\* film values.
C10_OneFetchPerIdentifier ==
    /\ \A s \in Slugs : film_fetches[s] <= 1
    /\ \A e1, e2 \in DOMAIN entry_film :
          (/\ entry_film[e1].slug = entry_film[e2].slug
           /\ Hydrated(e1) /\ Hydrated(e2)) =>
              entry_film[e1].title = entry_film[e2].title

\* C10, amended: a fetch is remembered by the object that caused it, not by
\* the identifier.  An entry, or its Film, fetches its film's page on every
\* resolution until one succeeds and never after; every such fetch is a
\* request of its own, so two entries with the same identifier cause two
\* fetches, and each holds the values of the page it was served.
C10_OneFetchPerObject ==
    /\ \A e \in DOMAIN entry_film :
          LET a == attempts[e]
          IN  /\ \A i \in 1..(Len(a) - 1) : a[i][1] # "ok"
              /\ Hydrated(e) <=> (a # <<>> /\ a[Len(a)][1] = "ok")
              /\ Hydrated(e) => entry_film[e].title = a[Len(a)][2]
    /\ \A s \in Slugs : film_fetches[s] = Cardinality(AttemptsOn(s))

C10_Witness ==
    /\ entry_film # <<>>
    /\ entry_film[1].slug = entry_film[2].slug
    /\ Hydrated(1) /\ Hydrated(2)
    /\ entry_film[1].title # entry_film[2].title
    /\ film_fetches[entry_film[1].slug] = 2

---------------------------------------------------------------------------
(* C11 *)

\* The entry's film reference is resolved: it holds a Film, not a slug.
Resolved(e) == ~IsStr(entry_film[e])

\* The fetches of film pages issued so far.
TotalFilmFetches(ff) == ff["barbie"] + ff["oppenheimer"]

\* C11: resolution is monotonic and free once done.  In every step a resolved
\* reference stays resolved and a film that holds its attributes keeps them;
\* get_film_details on a resolved entry returns the Film it holds and fetches
\* nothing; get_film_details that returns leaves the entry resolved; and
\* get_films fetches no page for a position that was already resolved.
C11_ResolutionIsMonotonic ==
    [][\A e \in EntryIds :
          /\ Resolved(e) => ~IsStr(entry_film'[e])
          /\ Hydrated(e) => entry_film'[e] = entry_film[e]
          /\ (call' = Call("get_film_details", e) /\ Resolved(e)) =>
                /\ film_fetches' = film_fetches
                /\ ret' = FilmAt(e)
                /\ entry_film'[e] = entry_film[e]
          /\ (call' = Call("get_film_details", e) /\ ret'.tag # "raised") =>
                /\ ~IsStr(entry_film'[e])
                /\ ret' = FilmAt(e)
          /\ (call'[1] = "get_films" /\ Resolved(e)) =>
                /\ attempts'[e] = attempts[e]
                /\ TotalFilmFetches(film_fetches') - TotalFilmFetches(film_fetches)
                      <= Cardinality({x \in EntryIds : IsStr(entry_film[x])})
      ]_vars

\* Both positions hold the same slug and each was fetched once; get_films(1)
\* is the last call.  Position 2 cannot be resolved while position 1 is a
\* slug, so position 1 was resolved before this call, which visited it and
\* fetched nothing for it.
C11_Witness ==
    /\ record = "UserList"
    /\ call = Call("get_films", Limit(1))
    /\ ret = Films
    /\ entry_film[1].slug = entry_film[2].slug
    /\ Len(attempts[1]) = 1 /\ attempts[1][1][1] = "ok"
    /\ Len(attempts[2]) = 1 /\ attempts[2][1][1] = "ok"
    /\ film_fetches[entry_film[1].slug] = 2
    /\ Hydrated(1) /\ Hydrated(2)

---------------------------------------------------------------------------
(* C12 *)

\* The last fetch that entry e caused failed.
LastFailed(e) ==
    attempts[e] # <<>> /\ attempts[e][Len(attempts[e])][1] = "failed"

\* The call being made resolves the reference at e: get_film_details on an
\* entry that holds a slug, an attribute of a Film without values, or
\* get_film with the slug whose first position is e.
Resolves(e) ==
    \/ call' = Call("get_film_details", e) /\ IsStr(entry_film[e])
    \/ call' = Call("title", e) /\ ~Hydrated(e)
    \/ call' = Call("get_film", entry_film[e].slug) /\ IndexOf(entry_film[e].slug) = e

\* C12 as stated: once a resolution has failed, no later resolution of the
\* same reference issues a fetch, so a failed fetch is the last one.
C12_FailureIsCached ==
    \A e \in EntryIds :
       \A i \in 1..(Len(attempts[e]) - 1) : attempts[e][i][1] # "failed"

\* C12, amended: a failure is not cached.  The failed call raises and leaves
\* the reference as it was, and every later resolution of that reference
\* issues one more fetch of the film's page, which may succeed.
C12_FailureIsNotCached ==
    [][\A e \in EntryIds :
          /\ LastFailed(e) => ~Hydrated(e)
          /\ (Resolves(e) /\ ret'.tag = "raised") =>
                /\ entry_film' = entry_film
                /\ LastFailed(e)'
          /\ (LastFailed(e) /\ Resolves(e)) =>
                /\ Len(attempts'[e]) = Len(attempts[e]) + 1
                /\ film_fetches'[entry_film[e].slug]
                      = film_fetches[entry_film[e].slug] + 1
      ]_vars

\* A position whose first fetch failed was fetched again and holds the film.
C12_Witness ==
    \E e \in EntryIds :
       /\ Len(attempts[e]) = 2
       /\ attempts[e][1][1] = "failed"
       /\ attempts[e][2][1] = "ok"
       /\ Hydrated(e)
       /\ film_fetches[entry_film[e].slug] >= 2

---------------------------------------------------------------------------
(* C13 *)

\* min(L, N) for the limit of the get_films call that call names.
HydratedPrefix(c) == Min(EffectiveLimit(c[2]), MaxEntries)

\* C13: get_films with limit L on a record of N entries, when no fetch fails,
\* returns the record with exactly the first min(L, N) positions resolved
\* (all N without a limit), the positions after them as they were, and every
\* film at its original position.
C13_BulkHydrationResolvesPrefix ==
    [][(call'[1] = "get_films" /\ ret' # Raised("FetchError")) =>
          /\ ret' = Films
          /\ \A e \in EntryIds :
                /\ entry_film'[e].slug = entry_film[e].slug
                /\ e <= HydratedPrefix(call') => ~IsStr(entry_film'[e])
                /\ e > HydratedPrefix(call') => entry_film'[e] = entry_film[e]
      ]_vars

\* The same statement for the records that hold films (UserList, as a list
\* or as a rank map), where it holds.
C13_UserListHydratesPrefix ==
    [][record # "EntryList" => 
          ((call'[1] = "get_films" /\ ret' # Raised("FetchError")) =>
              /\ ret' = Films
              /\ \A e \in EntryIds :
                    /\ entry_film'[e].slug = entry_film[e].slug
                    /\ e <= HydratedPrefix(call') => ~IsStr(entry_film'[e])
                    /\ e > HydratedPrefix(call') => entry_film'[e] = entry_film[e])
      ]_vars

---------------------------------------------------------------------------
(* C14 *)

\* The entries whose film identifier is slug, resolved or not.
EntriesWith(slug) == {e \in EntryIds : entry_film[e].slug = slug}

\* C14: search_film(slug) returns the first entry whose film identifier is
\* slug, and None when there is none; it never raises.
C14_SearchFilmFindsFirst ==
    call[1] = "search_film" =>
        IF EntriesWith(call[2]) = {}
        THEN ret = [tag |-> "None"]
        ELSE ret = [tag |-> "entry",
                    e |-> CHOOSE e \in EntriesWith(call[2]) :
                             \A x \in EntriesWith(call[2]) : e <= x]

\* What search_film does return: the claimed entry or None as long as no
\* unresolved entry with another identifier is reached before the match.
C14_SearchFilmUnlessStrMismatch ==
    call[1] = "search_film" =>
        LET blocked == {e \in EntryIds : IsStr(entry_film[e])
                                          /\ entry_film[e].slug # call[2]}
            hits == EntriesWith(call[2])
            reach == {e \in hits : \A x \in blocked : e < x}
        IN  IF reach # {}
            THEN ret = [tag |-> "entry",
                        e |-> CHOOSE e \in reach : \A x \in reach : e <= x]
            ELSE IF blocked # {} THEN ret = Raised("AttributeError")
            ELSE ret = [tag |-> "None"]

---------------------------------------------------------------------------
(* C15, C16 *)

\* C15: a fetch whose attempt ends with a transient status is retried up to
\* five attempts in all, a fetch whose attempt succeeds returns the page, and
\* no fetch makes more than five attempts.  For a finished call: it made at
\* most five attempts; if its last attempt succeeded it returned the content;
\* if its last attempt was transient the budget of five is spent.
C15_TransientIsRetriedWithinFive ==
    fpc = "done" =>
        /\ attempt_number <= StopAfterAttempt
        /\ outcome = 200 => fresult = Content
        /\ outcome \in TransientStatus =>
              /\ attempt_number = StopAfterAttempt
              /\ fresult.tag = "raised"

\* C16: a fetch that fails with a client-side error is attempted exactly once
\* and fails to the caller without any retry.
C16_ClientErrorNotRetried ==
    (fpc = "done" /\ outcome = 404) =>
        /\ attempt_number = 1
        /\ fresult.tag = "raised"
        /\ \A i \in DOMAIN events : events[i][1] # "wait"

\* A call whose only request was answered 404 has ended with an exception.
C16_Witness ==
    /\ fpc = "done"
    /\ fcalls = 1
    /\ outcome = 404
    /\ events = <<<<"sleep", SleepRange(delay)>>, <<"get", 404>>>>
    /\ fresult.tag = "raised"

---------------------------------------------------------------------------
(* C17 *)

\* The count of lists that the first lists page declares, as _parse_count
\* reads it from the page.
ParsedListCount == _parse_count(lsoup)

\* C17: the total that drives the pagination of the user's lists is the count
\* parsed from the first page: the count in use is the parsed one, no lists
\* page beyond ceil(parsed count / 12) is requested (only page 1 when the
\* count is at most 12), and a run that returns has requested exactly those.
C17_ListPagesFromParsedCount ==
    (kind = "lists" /\ lsoup # NoSoup /\ "list-set" \in lsoup.marks) =>
        /\ list_count = ParsedListCount
        /\ \A i \in DOMAIN lrequested :
              lrequested[i] <= PagesOf(ParsedListCount, UserListsPageSize)
        /\ pc = "returned" =>
              Len(lrequested) = PagesOf(ParsedListCount, UserListsPageSize)

---------------------------------------------------------------------------
(* C18 *)

---------------------------------------------------------------------------
(* C20 *)

\* C20: when threads read attributes of the same Film concurrently, its page
\* is fetched at most once in every interleaving, and the values the threads
\* get come from the same page.
C20_ConcurrentResolutionsCollapse ==
    /\ page_fetches <= 1
    /\ \A t, u \in Threads :
          (tpc[t] = "done" /\ tpc[u] = "done") => tseen[t] = tseen[u]

---------------------------------------------------------------------------
(* C21 *)

\* The step is a call that ended with the exception of a failed fetch.
ResolutionFails == ret' = Raised("FetchError") /\ film_failures' # film_failures

\* C21: a resolution that fails leaves the record intact.  The step that
\* raises keeps the number of entries, the declared total and every slug at
\* its position; exactly one position f has a new, failed fetch and holds
\* what it held; every other position is unchanged, except that the positions
\* get_films resolved before it reached f stay resolved.
C21_FailureLeavesRecordIntact ==
    [][ResolutionFails =>
          /\ DOMAIN entry_film' = DOMAIN entry_film
          /\ number_of_entries' = number_of_entries
          /\ \A e \in EntryIds : entry_film'[e].slug = entry_film[e].slug
          /\ \E f \in EntryIds :
                /\ attempts'[f] = Append(attempts[f], Failed("film"))
                /\ entry_film'[f] = entry_film[f]
                /\ \A e \in EntryIds \ {f} :
                      \/ entry_film'[e] = entry_film[e] /\ attempts'[e] = attempts[e]
                      \/ /\ call'[1] = "get_films"
                         /\ e < f
                         /\ IsStr(entry_film[e])
                         /\ Hydrated(e)'
      ]_vars

\* get_films resolved position 1 and failed at position 2, which still holds
\* its slug.
C21_Witness ==
    /\ call[1] = "get_films"
    /\ ret = Raised("FetchError")
    /\ Hydrated(1)
    /\ attempts[1] = <<Ok(entry_film[1].title)>>
    /\ IsStr(entry_film[2])
    /\ attempts[2] = <<Failed("film")>>

---------------------------------------------------------------------------
(* C22 *)

\* The value carries the owner, the declared total and the entries.
CarriesOwnerAndTotal(r, total) ==
    /\ IsRecord(r)
    /\ r.username = Username
    /\ r.number = total

\* C22 as stated: every aggregate returned for any kind (logs, diary, reviews,
\* watchlist, film list) is a record that carries the requested username as
\* owner, the count parsed from page 1 as declared total, and the ordered
\* entry sequence.
C22_AggregateIsRecord ==
    /\ Returned =>
          /\ CarriesOwnerAndTotal(result, first.total)
          /\ ResultEntries(result) = Concat(served)
    /\ \A i \in DOMAIN user_lists : IsRecord(user_lists[i])

\* The part of C22 that the code keeps: logs, the watchlist and every film
\* list are records with the owner and the total of their first page.
C22_LogsWatchlistAndListsAreRecords ==
    /\ Returned /\ kind \in {"logs", "watchlist"} =>
          /\ CarriesOwnerAndTotal(result, first.total)
          /\ ResultEntries(result) = Concat(served)
    /\ ListDone =>
          CarriesOwnerAndTotal(user_lists[Len(user_lists)], first.total)

---------------------------------------------------------------------------
(* C23 *)

\* C23: over any sequence of attribute reads on one Film whose fetches all
\* succeed, the main page is fetched at most once and the nanogenres page at
\* most once, and a read whose page the Film already holds sends no request
\* and returns what the held page gives.
C23_FilmPagesFetchedOnce ==
    fetch_errors = 0 =>
        /\ page_fetches <= 1
        /\ nano_fetches <= 1
        /\ access.op \in FilmAttrs /\ access.had =>
              /\ access.requests = 0
              /\ access.got = (IF PageOf(access.op) = "nano" THEN _nano_soup
                               ELSE _soup)
              /\ access.got = cached_attrs[access.op]

\* title, year and nanogenres were read, title twice: one fetch of each page.
C23_Witness ==
    /\ fetch_errors = 0
    /\ page_fetches = 1
    /\ nano_fetches = 1
    /\ \A a \in FilmAttrs : cached_attrs[a] # 0
    /\ access.op = "title" /\ access.had /\ access.requests = 0

---------------------------------------------------------------------------
(* C26 *)

\* C26: Film.__repr__ sends no request and changes nothing of the Film: what
\* it returns holds the slug, and title and year exactly where they were
\* already cached, with their cached values, and the cached attributes and
\* both pages are after the call what they were before it.
C26_ReprReadsOnlyTheCache ==
    [][access'.op = "__repr__" =>
          /\ UNCHANGED <<_soup, _nano_soup, cached_attrs, page_fetches,
                         nano_fetches, fetch_errors>>
          /\ access'.requests = 0
          /\ DOMAIN repr' =
                {"slug"} \cup {a \in {"title", "year"} : cached_attrs[a] # 0}
          /\ \A a \in DOMAIN repr' \ {"slug"} : repr'[a] = cached_attrs[a]
      ]_vars

\* __repr__ of a Film whose title was read and whose year was not.
C26_Witness ==
    /\ access.op = "__repr__"
    /\ cached_attrs["title"] # 0
    /\ cached_attrs["year"] = 0
    /\ repr = [slug |-> "barbie", title |-> cached_attrs["title"]]

---------------------------------------------------------------------------
(* C24 *)

\* C24: no request is sent through a Fetcher without a delay step immediately
\* before it: every session.get, the first of a call or a later one, directly
\* follows a sleep whose length is drawn from an interval of positive lengths.
C24_DelayBeforeEveryRequest ==
    \A i \in DOMAIN events :
        events[i][1] = "get" =>
            /\ i > 1
            /\ events[i - 1][1] = "sleep"
            /\ 0 < events[i - 1][2][1]
            /\ events[i - 1][2][1] < events[i - 1][2][2]

\* Two requests through one Fetcher, each after its own sleep.
C24_Witness ==
    /\ Len(events) = 4
    /\ events[1][1] = "sleep" /\ events[2][1] = "get"
    /\ events[3][1] = "sleep" /\ events[4][1] = "get"

---------------------------------------------------------------------------
(* C25 *)

\* lru_cache has never discarded an entry: the User has fetched no more
\* distinct pages than the cache holds.
NothingEvicted == Cardinality(ok_keys) <= LruMaxsize

---------------------------------------------------------------------------
(* C30 *)

\* The last access read a property whose previous run had failed at a page.
Retried == last_access.after # 0

\* The retry ran the aggregation again, sent the request for the page that
\* had failed, and sent none for the pages before it.
ResumedAtFailedPage ==
    /\ last_access.how # "cached"
    /\ last_access.after \in last_access.requested
    /\ \A p \in last_access.requested : p >= last_access.after

---------------------------------------------------------------------------
(* C27 *)

\* C27 as stated: for a user whose declared list count exceeds 12,
\* User._parse_user_lists fetches the lists pages 2..ceil(list_count / 12) in
\* order, appends the lists parsed from them after those of page 1 and
\* returns the merged sequence: a run in which no fetch failed returns, has
\* requested exactly those pages, and returns one list for every list
\* summary on the pages.
C27_UserListsPagesMerged ==
    (/\ kind = "lists" /\ impl = "model"
     /\ list_count > UserListsPageSize
     /\ pc \in {"returned", "raised"}
     /\ result # Raised("FetchError")) =>
        /\ pc = "returned"
        /\ lrequested =
              [p \in 1..PagesOf(list_count, UserListsPageSize) |-> p]
        /\ Len(result.entries) =
              Len(Concat([i \in DOMAIN lserved |-> [j \in 1..lserved[i] |-> j]]))

---------------------------------------------------------------------------
(* C28 *)

\* The film list returned last.
LastList == user_lists[Len(user_lists)]

\* C28 as stated: whether a film list is returned as a rank map or as a plain
\* sequence is decided by the numbered marker of the list's first page,
\* whatever the number of pages and the content of the later pages, in the
\* model-based and in the parser-based implementation alike.
C28_FirstPageDecidesRankMap ==
    ListDone => (LastList.films.type = "dict" <=> IsNumbered(first))

\* What holds of both implementations: the page that decides is the one bound
\* to soup when the loop is over, which is the first page in the parser
\* functions and in every list of one page.
C28_LastBoundPageDecidesRankMap ==
    ListDone =>
        /\ LastList.films.type = "dict" <=> IsNumbered(soup)
        /\ (impl = "parser" \/ Len(served) = 1) => soup = first

---------------------------------------------------------------------------
(* C29 *)

\* C29 as stated: UserList.get_film(slug) returns None exactly when no entry
\* of the list has the identifier slug; when an entry has it, resolved or not,
\* the film at that entry is returned (unless its fetch fails).
C29_GetFilmFindsEveryEntry ==
    \A slug \in Slugs :
        (call = Call("get_film", slug) /\ ret # Raised("FetchError")) =>
            (ret = [tag |-> "None"] <=> EntriesWith(slug) = {})

\* What the code keeps: get_film finds the entries that hold the slug as a
\* string, and the first of them; it returns None when no entry holds the
\* string, also when entries hold a Film with that slug.
C29_GetFilmFindsFirstStr ==
    [][\A slug \in Slugs :
          call' = Call("get_film", slug) /\ call' # call =>
              LET strs == {e \in EntryIds : IsStr(entry_film[e])
                                            /\ entry_film[e].slug = slug}
              IN  IF strs = {}
                  THEN /\ ret' = [tag |-> "None"]
                       /\ UNCHANGED <<entry_film, film_fetches>>
                  ELSE \E e \in strs :
                          /\ \A f \in strs : e <= f
                          /\ ret' \in {FilmAt(e), Raised("FetchError")}
                          /\ \A f \in EntryIds \ {e} :
                                entry_film'[f] = entry_film[f]
      ]_vars

=============================================================================
